---- MODULE Spec2Model ----
(***************************************************************************)
(* Minerva chess engine: the UCI driver (src/src/uci.cpp), the iterative   *)
(* deepening controller, negamax and quiescence search                     *)
(* (src/src/search.cpp), the transposition table (src/src/tt.hpp), the     *)
(* score utilities (src/src/utils.hpp) and the move-ordering state         *)
(* (src/src/move_order.hpp).                                               *)
(*                                                                         *)
(* The rules library (chess.hpp) is external.  It is represented by a      *)
(* small fixed game graph: every position lists its legal moves in         *)
(* generation order, the pieces on its squares, whether the side to move   *)
(* is in check and its static evaluation.                                  *)
(***************************************************************************)
EXTENDS Integers, Sequences, FiniteSets, TLC

(***************************************************************************)
(* Bounds of the model.                                                    *)
(***************************************************************************)
\* number of UCI command lines read from stdin
MaxCmds == 3
\* the N of "setoption name Threads value N" of the lazy-SMP specification
MaxThreads == 2
\* the iteration cap of Search::go when limits.depth = 0 (64 in the source,
\* search.cpp:188), scaled to the size of the game graph
DepthCap == 3
\* the node-count period of the cancellation poll is 2^bits: 11 bits in
\* negamax (0x7FF, search.cpp:95) and 10 bits in qsearch (0x3FF,
\* search.cpp:42), scaled to the size of the game graph
NegamaxPollBits == 2
QsearchPollBits == 1
\* the table has 2^TTBits slots (2^22 for the default 64 MiB, tt.hpp:21-27)
TTBits == 2

(***************************************************************************)
(* utils.hpp                                                               *)
(***************************************************************************)
INF == 30000
MATE == 32000
MATE_IN_MAX == 10000

Min(a, b) == IF a < b THEN a ELSE b
Max(a, b) == IF a > b THEN a ELSE b

mate_score(plies_to_mate) == MATE - plies_to_mate

is_mate_score(s) == s > MATE - MATE_IN_MAX \/ s < -MATE + MATE_IN_MAX

\* a to_tt that stores the score as it is
to_tt_asis(score, ply) == score

to_tt(score, ply) ==
    IF score > MATE - MATE_IN_MAX THEN score + ply
    ELSE IF score < -MATE + MATE_IN_MAX THEN score - ply
    ELSE score

\* a from_tt that returns the stored score as it is
from_tt_asis(score, ply) == score

from_tt(score, ply) ==
    IF score > MATE - MATE_IN_MAX THEN score - ply
    ELSE IF score < -MATE + MATE_IN_MAX THEN score + ply
    ELSE score

\* two's-complement narrowing casts
Int16(x) == ((x + 32768) % 65536) - 32768
Int8(x) == ((x + 128) % 256) - 128

(***************************************************************************)
(* The rules library: moves, squares, positions.                           *)
(***************************************************************************)
\* chess::Move packs a move into 16 bits: type << 14, (promotion piece -
\* KNIGHT) << 12, from << 6, to.  NO_MOVE is 0.
NO_MOVE == 0
NORMAL == 0
PROMOTION == 1
CASTLING == 3

\* piece types, the index used by mvv_lva's value table
PAWN == 0
KNIGHT == 1
BISHOP == 2
ROOK == 3
QUEEN == 4
KING == 5
NONE == 6

Mv(typ, promo, from, to) == typ * 16384 + (promo - KNIGHT) * 4096 + from * 64 + to
Quiet(from, to) == Mv(NORMAL, KNIGHT, from, to)

MoveFrom(m) == (m \div 64) % 64
MoveTo(m) == m % 64
MoveType(m) == m \div 16384
PromotionType(m) == ((m \div 4096) % 4) + KNIGHT

\* Position ids.
START == 1
PA == 2
PB == 3
STALE == 4
PB1 == 5
RM2 == 6
PX == 7
PZ == 8
PY1 == 9
PY2 == 10
PM1 == 11
PQ1 == 12
PM2 == 13
WIDE == 14
OPEN == 23
CASTLE == 25
CHECKS == 27

\* The game graph.  white: side to move is white; chk: side to move is in
\* check; ev: static evaluation from the side to move; pcs: piece type on
\* each occupied square; moves: the legal moves in generation order, each
\* with the position it leads to.
Game == <<
  \* 1 START: rook takes pawn, or a quiet king move
  [white |-> TRUE, chk |-> FALSE, ev |-> 400,
   pcs |-> <<[sq |-> 1, pt |-> KING], [sq |-> 2, pt |-> ROOK],
             [sq |-> 12, pt |-> KING], [sq |-> 11, pt |-> PAWN]>>,
   moves |-> <<[m |-> Quiet(1, 0), nxt |-> PB], [m |-> Quiet(2, 11), nxt |-> PA]>>],
  \* 2 PA: king recaptures
  [white |-> FALSE, chk |-> FALSE, ev |-> -450,
   pcs |-> <<[sq |-> 1, pt |-> KING], [sq |-> 11, pt |-> ROOK], [sq |-> 12, pt |-> KING]>>,
   moves |-> <<[m |-> Quiet(12, 11), nxt |-> STALE]>>],
  \* 3 PB: the pawn promotes
  [white |-> FALSE, chk |-> FALSE, ev |-> -400,
   pcs |-> <<[sq |-> 0, pt |-> KING], [sq |-> 2, pt |-> ROOK],
             [sq |-> 12, pt |-> KING], [sq |-> 11, pt |-> PAWN]>>,
   moves |-> <<[m |-> Mv(PROMOTION, QUEEN, 11, 3), nxt |-> PB1]>>],
  \* 4 STALE: no legal move, not in check
  [white |-> TRUE, chk |-> FALSE, ev |-> 0,
   pcs |-> <<[sq |-> 1, pt |-> KING], [sq |-> 11, pt |-> KING]>>,
   moves |-> <<>>],
  \* 5 PB1: no legal move, not in check
  [white |-> TRUE, chk |-> FALSE, ev |-> -500,
   pcs |-> <<[sq |-> 0, pt |-> KING], [sq |-> 2, pt |-> ROOK],
             [sq |-> 12, pt |-> KING], [sq |-> 3, pt |-> QUEEN]>>,
   moves |-> <<>>],
  \* 6 RM2: white mates in two with the rook move 2 -> 18
  [white |-> TRUE, chk |-> FALSE, ev |-> 400,
   pcs |-> <<[sq |-> 1, pt |-> KING], [sq |-> 2, pt |-> ROOK],
             [sq |-> 10, pt |-> KING], [sq |-> 11, pt |-> PAWN]>>,
   moves |-> <<[m |-> Quiet(1, 0), nxt |-> PZ], [m |-> Quiet(2, 18), nxt |-> PX]>>],
  \* 7 PX: black is in check; both evasions lose to a mate in one
  [white |-> FALSE, chk |-> TRUE, ev |-> -420,
   pcs |-> <<[sq |-> 1, pt |-> KING], [sq |-> 18, pt |-> ROOK],
             [sq |-> 10, pt |-> KING], [sq |-> 11, pt |-> PAWN]>>,
   moves |-> <<[m |-> Quiet(10, 9), nxt |-> PY1], [m |-> Quiet(10, 17), nxt |-> PY2]>>],
  \* 8 PZ: no legal move, not in check
  [white |-> FALSE, chk |-> FALSE, ev |-> -400,
   pcs |-> <<[sq |-> 0, pt |-> KING], [sq |-> 2, pt |-> ROOK],
             [sq |-> 10, pt |-> KING], [sq |-> 11, pt |-> PAWN]>>,
   moves |-> <<>>],
  \* 9 PY1: white mates in one with 18 -> 26, or takes the pawn
  [white |-> TRUE, chk |-> FALSE, ev |-> 410,
   pcs |-> <<[sq |-> 1, pt |-> KING], [sq |-> 18, pt |-> ROOK],
             [sq |-> 9, pt |-> KING], [sq |-> 11, pt |-> PAWN]>>,
   moves |-> <<[m |-> Quiet(18, 11), nxt |-> PQ1], [m |-> Quiet(18, 26), nxt |-> PM1]>>],
  \* 10 PY2: white mates in one with 18 -> 25
  [white |-> TRUE, chk |-> FALSE, ev |-> 410,
   pcs |-> <<[sq |-> 1, pt |-> KING], [sq |-> 18, pt |-> ROOK],
             [sq |-> 17, pt |-> KING], [sq |-> 11, pt |-> PAWN]>>,
   moves |-> <<[m |-> Quiet(18, 25), nxt |-> PM2]>>],
  \* 11 PM1: black is checkmated
  [white |-> FALSE, chk |-> TRUE, ev |-> -430,
   pcs |-> <<[sq |-> 1, pt |-> KING], [sq |-> 26, pt |-> ROOK],
             [sq |-> 9, pt |-> KING], [sq |-> 11, pt |-> PAWN]>>,
   moves |-> <<>>],
  \* 12 PQ1: no legal move, not in check
  [white |-> FALSE, chk |-> FALSE, ev |-> -500,
   pcs |-> <<[sq |-> 1, pt |-> KING], [sq |-> 11, pt |-> ROOK], [sq |-> 9, pt |-> KING]>>,
   moves |-> <<>>],
  \* 13 PM2: black is checkmated
  [white |-> FALSE, chk |-> TRUE, ev |-> -430,
   pcs |-> <<[sq |-> 1, pt |-> KING], [sq |-> 25, pt |-> ROOK],
             [sq |-> 17, pt |-> KING], [sq |-> 11, pt |-> PAWN]>>,
   moves |-> <<>>],
  \* 14 WIDE: eight moves: six quiet moves of the rook and the king, the
  \* rook takes the pawn on 11, the pawn on 52 promotes; no command line of
  \* the driver's specification sets it
  [white |-> TRUE, chk |-> FALSE, ev |-> 480,
   pcs |-> <<[sq |-> 1, pt |-> KING], [sq |-> 2, pt |-> ROOK],
             [sq |-> 12, pt |-> KING], [sq |-> 11, pt |-> PAWN],
             [sq |-> 52, pt |-> PAWN]>>,
   moves |-> <<[m |-> Quiet(2, 3), nxt |-> WIDE + 1],
               [m |-> Quiet(2, 4), nxt |-> WIDE + 2],
               [m |-> Quiet(1, 0), nxt |-> WIDE + 3],
               [m |-> Quiet(2, 10), nxt |-> WIDE + 4],
               [m |-> Quiet(2, 18), nxt |-> WIDE + 5],
               [m |-> Quiet(1, 8), nxt |-> WIDE + 6],
               [m |-> Quiet(2, 11), nxt |-> WIDE + 7],
               [m |-> Mv(PROMOTION, QUEEN, 52, 60), nxt |-> WIDE + 8]>>],
  \* 15: after WIDE, the rook went 2 -> 3; no legal move, not in check
  [white |-> FALSE, chk |-> FALSE, ev |-> -480,
   pcs |-> <<[sq |-> 1, pt |-> KING], [sq |-> 3, pt |-> ROOK],
             [sq |-> 12, pt |-> KING], [sq |-> 11, pt |-> PAWN],
             [sq |-> 52, pt |-> PAWN]>>,
   moves |-> <<>>],
  \* 16: after WIDE, the rook went 2 -> 4; no legal move, not in check
  [white |-> FALSE, chk |-> FALSE, ev |-> -480,
   pcs |-> <<[sq |-> 1, pt |-> KING], [sq |-> 4, pt |-> ROOK],
             [sq |-> 12, pt |-> KING], [sq |-> 11, pt |-> PAWN],
             [sq |-> 52, pt |-> PAWN]>>,
   moves |-> <<>>],
  \* 17: after WIDE, the king went 1 -> 0; no legal move, not in check
  [white |-> FALSE, chk |-> FALSE, ev |-> -470,
   pcs |-> <<[sq |-> 0, pt |-> KING], [sq |-> 2, pt |-> ROOK],
             [sq |-> 12, pt |-> KING], [sq |-> 11, pt |-> PAWN],
             [sq |-> 52, pt |-> PAWN]>>,
   moves |-> <<>>],
  \* 18: after WIDE, the rook went 2 -> 10; no legal move, not in check
  [white |-> FALSE, chk |-> FALSE, ev |-> -480,
   pcs |-> <<[sq |-> 1, pt |-> KING], [sq |-> 10, pt |-> ROOK],
             [sq |-> 12, pt |-> KING], [sq |-> 11, pt |-> PAWN],
             [sq |-> 52, pt |-> PAWN]>>,
   moves |-> <<>>],
  \* 19: after WIDE, the rook went 2 -> 18; no legal move, not in check
  [white |-> FALSE, chk |-> FALSE, ev |-> -490,
   pcs |-> <<[sq |-> 1, pt |-> KING], [sq |-> 18, pt |-> ROOK],
             [sq |-> 12, pt |-> KING], [sq |-> 11, pt |-> PAWN],
             [sq |-> 52, pt |-> PAWN]>>,
   moves |-> <<>>],
  \* 20: after WIDE, the king went 1 -> 8; no legal move, not in check
  [white |-> FALSE, chk |-> FALSE, ev |-> -470,
   pcs |-> <<[sq |-> 8, pt |-> KING], [sq |-> 2, pt |-> ROOK],
             [sq |-> 12, pt |-> KING], [sq |-> 11, pt |-> PAWN],
             [sq |-> 52, pt |-> PAWN]>>,
   moves |-> <<>>],
  \* 21: after WIDE, the rook took the pawn on 11; no legal move, not in check
  [white |-> FALSE, chk |-> FALSE, ev |-> -580,
   pcs |-> <<[sq |-> 1, pt |-> KING], [sq |-> 11, pt |-> ROOK],
             [sq |-> 12, pt |-> KING], [sq |-> 52, pt |-> PAWN]>>,
   moves |-> <<>>],
  \* 22: after WIDE, the pawn promoted on 60; no legal move, not in check
  [white |-> FALSE, chk |-> FALSE, ev |-> -1300,
   pcs |-> <<[sq |-> 1, pt |-> KING], [sq |-> 2, pt |-> ROOK],
             [sq |-> 12, pt |-> KING], [sq |-> 11, pt |-> PAWN],
             [sq |-> 60, pt |-> QUEEN]>>,
   moves |-> <<>>],
  \* 23 OPEN: twenty quiet moves, the sixteen pawn moves and the four knight
  \* moves of the start position of chess (the pieces that cannot move are
  \* left out); no command line of the driver's specification sets it
  [white |-> TRUE, chk |-> FALSE, ev |-> 0,
   pcs |-> <<[sq |-> 8, pt |-> PAWN],
             [sq |-> 9, pt |-> PAWN],
             [sq |-> 10, pt |-> PAWN],
             [sq |-> 11, pt |-> PAWN],
             [sq |-> 12, pt |-> PAWN],
             [sq |-> 13, pt |-> PAWN],
             [sq |-> 14, pt |-> PAWN],
             [sq |-> 15, pt |-> PAWN],
             [sq |-> 1, pt |-> KNIGHT],
             [sq |-> 6, pt |-> KNIGHT],
             [sq |-> 4, pt |-> KING],
             [sq |-> 60, pt |-> KING]>>,
   moves |-> <<[m |-> Quiet(8, 16), nxt |-> OPEN + 1],
               [m |-> Quiet(9, 17), nxt |-> OPEN + 1],
               [m |-> Quiet(10, 18), nxt |-> OPEN + 1],
               [m |-> Quiet(11, 19), nxt |-> OPEN + 1],
               [m |-> Quiet(12, 20), nxt |-> OPEN + 1],
               [m |-> Quiet(13, 21), nxt |-> OPEN + 1],
               [m |-> Quiet(14, 22), nxt |-> OPEN + 1],
               [m |-> Quiet(15, 23), nxt |-> OPEN + 1],
               [m |-> Quiet(8, 24), nxt |-> OPEN + 1],
               [m |-> Quiet(9, 25), nxt |-> OPEN + 1],
               [m |-> Quiet(10, 26), nxt |-> OPEN + 1],
               [m |-> Quiet(11, 27), nxt |-> OPEN + 1],
               [m |-> Quiet(12, 28), nxt |-> OPEN + 1],
               [m |-> Quiet(13, 29), nxt |-> OPEN + 1],
               [m |-> Quiet(14, 30), nxt |-> OPEN + 1],
               [m |-> Quiet(15, 31), nxt |-> OPEN + 1],
               [m |-> Quiet(1, 16), nxt |-> OPEN + 1],
               [m |-> Quiet(1, 18), nxt |-> OPEN + 1],
               [m |-> Quiet(6, 21), nxt |-> OPEN + 1],
               [m |-> Quiet(6, 23), nxt |-> OPEN + 1]>>],
  \* 24: after a move of OPEN: the game graph ends here
  [white |-> FALSE, chk |-> FALSE, ev |-> 0,
   pcs |-> <<[sq |-> 4, pt |-> KING], [sq |-> 60, pt |-> KING]>>,
   moves |-> <<>>],
  \* 25 CASTLE: white may castle short, which the library encodes as the
  \* king's move to the rook's square (e1 -> h1), or move the king to f1; no
  \* command line of the driver's specification sets it
  [white |-> TRUE, chk |-> FALSE, ev |-> 500,
   pcs |-> <<[sq |-> 4, pt |-> KING], [sq |-> 7, pt |-> ROOK], [sq |-> 60, pt |-> KING]>>,
   moves |-> <<[m |-> Mv(CASTLING, KNIGHT, 4, 7), nxt |-> CASTLE + 1],
               [m |-> Quiet(4, 5), nxt |-> OPEN + 1]>>],
  \* 26: after CASTLE, white has castled; the black king moves e8 -> e7
  [white |-> FALSE, chk |-> FALSE, ev |-> -520,
   pcs |-> <<[sq |-> 6, pt |-> KING], [sq |-> 5, pt |-> ROOK], [sq |-> 60, pt |-> KING]>>,
   moves |-> <<[m |-> Quiet(60, 52), nxt |-> OPEN + 1]>>],
  \* 27 CHECKS (7k/8/8/Q7/8/8/8/q6K w): white is in check from the queen on
  \* a1 and takes it with check, Qa5xa1+; then Kg8, Qa2+, Kh8, Qa1+ and
  \* so on, white checking for ever. The graph has the moves of this line;
  \* no command line of the driver's specification sets it
  [white |-> TRUE, chk |-> TRUE, ev |-> 0,
   pcs |-> <<[sq |-> 7, pt |-> KING], [sq |-> 32, pt |-> QUEEN],
             [sq |-> 63, pt |-> KING], [sq |-> 0, pt |-> QUEEN]>>,
   moves |-> <<[m |-> Quiet(32, 0), nxt |-> CHECKS + 1]>>],
  \* 28: black king h8 in check from the queen on a1; Kg8
  [white |-> FALSE, chk |-> TRUE, ev |-> -900,
   pcs |-> <<[sq |-> 7, pt |-> KING], [sq |-> 0, pt |-> QUEEN], [sq |-> 63, pt |-> KING]>>,
   moves |-> <<[m |-> Quiet(63, 62), nxt |-> CHECKS + 2]>>],
  \* 29: white to move, the quiet Kh2 or Qa2+
  [white |-> TRUE, chk |-> FALSE, ev |-> 900,
   pcs |-> <<[sq |-> 7, pt |-> KING], [sq |-> 0, pt |-> QUEEN], [sq |-> 62, pt |-> KING]>>,
   moves |-> <<[m |-> Quiet(7, 15), nxt |-> CHECKS + 5],
               [m |-> Quiet(0, 8), nxt |-> CHECKS + 3]>>],
  \* 30: black king g8 in check from the queen on a2; Kh8
  [white |-> FALSE, chk |-> TRUE, ev |-> -900,
   pcs |-> <<[sq |-> 7, pt |-> KING], [sq |-> 8, pt |-> QUEEN], [sq |-> 62, pt |-> KING]>>,
   moves |-> <<[m |-> Quiet(62, 63), nxt |-> CHECKS + 4]>>],
  \* 31: white to move, Qa1+ leads back to 28
  [white |-> TRUE, chk |-> FALSE, ev |-> 900,
   pcs |-> <<[sq |-> 7, pt |-> KING], [sq |-> 8, pt |-> QUEEN], [sq |-> 63, pt |-> KING]>>,
   moves |-> <<[m |-> Quiet(8, 0), nxt |-> CHECKS + 1]>>],
  \* 32: after Kh2 in 29; Kf8
  [white |-> FALSE, chk |-> FALSE, ev |-> -900,
   pcs |-> <<[sq |-> 15, pt |-> KING], [sq |-> 0, pt |-> QUEEN], [sq |-> 62, pt |-> KING]>>,
   moves |-> <<[m |-> Quiet(62, 61), nxt |-> CHECKS + 6]>>],
  \* 33: white to move, Kh3
  [white |-> TRUE, chk |-> FALSE, ev |-> 900,
   pcs |-> <<[sq |-> 15, pt |-> KING], [sq |-> 0, pt |-> QUEEN], [sq |-> 61, pt |-> KING]>>,
   moves |-> <<[m |-> Quiet(15, 23), nxt |-> CHECKS + 7]>>],
  \* 34: after Kh3: the game graph ends here
  [white |-> FALSE, chk |-> FALSE, ev |-> -920,
   pcs |-> <<[sq |-> 23, pt |-> KING], [sq |-> 0, pt |-> QUEEN], [sq |-> 61, pt |-> KING]>>,
   moves |-> <<>>]
>>

Positions == 1..Len(Game)

\* movegen::legalmoves(ml, b)
LegalMoves(b) == [i \in 1..Len(Game[b].moves) |-> Game[b].moves[i].m]

\* Board::makeMove(m), for a legal m
MakeMove(b, m) ==
    LET i == CHOOSE j \in 1..Len(Game[b].moves) : Game[b].moves[j].m = m
    IN Game[b].moves[i].nxt

\* Board::inCheck()
InCheck(b) == Game[b].chk

\* Board::at(sq).type()
PieceAt(b, sq) ==
    IF \E i \in 1..Len(Game[b].pcs) : Game[b].pcs[i].sq = sq
    THEN Game[b].pcs[CHOOSE i \in 1..Len(Game[b].pcs) : Game[b].pcs[i].sq = sq].pt
    ELSE NONE

\* Board::isCapture(m): a piece stands on the target square of m on board b
\* and m is not a castling move (the game graph has no en passant move)
IsCapture(b, m) == PieceAt(b, MoveTo(m)) # NONE /\ MoveType(m) # CASTLING

\* Board::hash()
Hash(b) == b

\* Board::sideToMove() == Color::WHITE
WhiteToMove(b) == Game[b].white

\* eval::evaluate(b): the static score from the side to move (the cache keyed
\* by the position hash returns the same value)
Evaluate(b) == Game[b].ev

\* what a call of eval::evaluate(b) leaves in eval_cache (eval.cpp:179-184,
\* 441-444): the key of b is in the cache afterwards
CacheInsert(cache, b) == cache \cup {Hash(b)}

(***************************************************************************)
(* tt.hpp                                                                  *)
(***************************************************************************)
EXACT == 0
LOWER == 1
UPPER == 2

\* struct TTEntry, with its default member initialisers
EmptyEntry == [key |-> 0, move |-> 0, score |-> 0, depth |-> -1, flag |-> 0, gen |-> 0]

TTSize == 2 ^ TTBits

\* TranspositionTable::index: (size_t)key & mask_, mask_ = size - 1
TTIndex(key) == key % TTSize

\* TranspositionTable::resize: every slot default-constructed, gen_ = 0
NewTT == [table |-> [i \in 0..(TTSize - 1) |-> EmptyEntry], gen |-> 0]

\* TranspositionTable::probe: the slot when its key matches, else nullptr
Probe(tt, key) ==
    LET e == tt.table[TTIndex(key)]
    IN [hit |-> e.key = key, e |-> e]

\* a store that always replaces
StoreAlways(e, key, depth) == TRUE

\* the replacement test of TranspositionTable::store
StoreReplaces(e, key, depth) == e.key # key \/ depth >= e.depth

\* TranspositionTable::store
Store(tt, key, move, depth, score, flag) ==
    LET e == tt.table[TTIndex(key)]
    IN IF StoreReplaces(e, key, depth)
       THEN [tt EXCEPT !.table[TTIndex(key)] =
                [key |-> key, move |-> move,
                 depth |-> Int8(Min(depth, 127)),
                 score |-> Int16(Max(-MATE, Min(MATE, score))),
                 flag |-> flag, gen |-> tt.gen]]
       ELSE tt

\* a new_generation that also empties the table
NewGenerationWipes(tt) == [table |-> NewTT.table, gen |-> (tt.gen + 1) % 256]

\* TranspositionTable::new_generation (gen_ is a uint8_t)
NewGeneration(tt) == [tt EXCEPT !.gen = (tt.gen + 1) % 256]

(***************************************************************************)
(* move_order.hpp                                                          *)
(***************************************************************************)
\* the (from, to) cells of History::table that a move of the game can touch;
\* every other cell of the 64x64 table stays 0
HistCells ==
    UNION {{<<MoveFrom(LegalMoves(b)[i]), MoveTo(LegalMoves(b)[i])>> :
               i \in 1..Len(LegalMoves(b))} : b \in Positions}

\* History::clear
HistoryClear == [c \in HistCells |-> 0]

\* a bonus that is cast to int16_t without the clamp
HistoryBonusUnclamped(h, m, v) ==
    [h EXCEPT ![<<MoveFrom(m), MoveTo(m)>>] = Int16(h[<<MoveFrom(m), MoveTo(m)>>] + v)]

\* History::bonus
HistoryBonus(h, m, v) ==
    LET c == <<MoveFrom(m), MoveTo(m)>>
        nv == h[c] + v
    IN [h EXCEPT ![c] = Int16(Max(-30000, Min(30000, nv)))]

\* History::score
HistoryScore(h, m) == h[<<MoveFrom(m), MoveTo(m)>>]

\* the plies a recursion path of the game graph can reach under the
\* iteration cap (m1 and m2 have 256 cells each)
KillerPlies == 0..Len(Game)

\* Killers::clear
KillersClear == [m1 |-> [p \in KillerPlies |-> NO_MOVE], m2 |-> [p \in KillerPlies |-> NO_MOVE]]

\* a push without the test for a move that is already a killer
KillersPushAlways(k, ply, m) ==
    [m1 |-> [k.m1 EXCEPT ![ply] = m], m2 |-> [k.m2 EXCEPT ![ply] = k.m1[ply]]]

\* Killers::push
KillersPush(k, ply, m) ==
    IF m = k.m1[ply] \/ m = k.m2[ply] THEN k
    ELSE [m1 |-> [k.m1 EXCEPT ![ply] = m], m2 |-> [k.m2 EXCEPT ![ply] = k.m1[ply]]]

\* Killers::is_killer
IsKiller(k, ply, m) == m = k.m1[ply] \/ m = k.m2[ply]

\* the value table V of mvv_lva: P N B R Q K NONE
PieceValue == <<100, 320, 330, 500, 900, 20000, 0>>

\* mvv_lva (the game graph has no en passant move)
mvv_lva(b, m) ==
    IF ~IsCapture(b, m) THEN 0
    ELSE 10000 + PieceValue[PieceAt(b, MoveTo(m)) + 1] * 16
               - PieceValue[PieceAt(b, MoveFrom(m)) + 1]

(***************************************************************************)
(* search.cpp: move ordering                                               *)
(***************************************************************************)
\* the element of a one-element set: ByValue({f(x) : x \in {e}}) is f(e) with
\* e evaluated once, as C++ evaluates an argument or an initializer once
ByValue(S) == CHOOSE x \in S : TRUE

\* std::sort on a list of at most 16 elements is an insertion sort: an element
\* moves in front of the elements that compare strictly after it.
RECURSIVE InsertDesc(_, _, _)
InsertDesc(sorted, x, key) ==
    IF sorted = <<>> THEN <<x>>
    ELSE IF key[x] > key[sorted[Len(sorted)]]
         THEN Append(InsertDesc(SubSeq(sorted, 1, Len(sorted) - 1), x, key), sorted[Len(sorted)])
         ELSE Append(sorted, x)

RECURSIVE SortDesc(_, _)
SortDesc(ml, key) ==
    IF ml = <<>> THEN <<>>
    ELSE ByValue({InsertDesc(st, ml[Len(ml)], key) :
                     st \in {SortDesc(SubSeq(ml, 1, Len(ml) - 1), key)}})

\* std::sort on more than 16 elements (libstdc++ introsort): the ranges longer
\* than 16 are partitioned around the median of three, then the whole list is
\* insertion-sorted. Positions are 1-based, a range is first .. last - 1. The
\* depth limit 2 * lg(n) >= 8 is not used up by a list of at most 24 elements
\* (a range shrinks by at least one element per partition), and a chess
\* position's move list is compared by score only, so moves with equal scores
\* are exchanged like any others.
Swap(s, i, j) == [s EXCEPT ![i] = s[j], ![j] = s[i]]

MoveMedianToFirst(s, result, a, b, c, key) ==
    LET comp(x, y) == key[s[x]] > key[s[y]]
    IN IF comp(a, b)
       THEN (IF comp(b, c) THEN Swap(s, result, b)
             ELSE IF comp(a, c) THEN Swap(s, result, c)
             ELSE Swap(s, result, a))
       ELSE IF comp(a, c) THEN Swap(s, result, a)
       ELSE IF comp(b, c) THEN Swap(s, result, c)
       ELSE Swap(s, result, b)

RECURSIVE ScanUp(_, _, _, _)
ScanUp(s, first, pivot, key) ==
    IF key[s[first]] > key[s[pivot]] THEN ScanUp(s, first + 1, pivot, key) ELSE first

RECURSIVE ScanDown(_, _, _, _)
ScanDown(s, last, pivot, key) ==
    IF key[s[pivot]] > key[s[last]] THEN ScanDown(s, last - 1, pivot, key) ELSE last

RECURSIVE UnguardedPartition(_, _, _, _, _)
UnguardedPartition(s, first, last, pivot, key) ==
    ByValue({IF ~(fl[1] < fl[2]) THEN [s |-> s, cut |-> fl[1]]
             ELSE UnguardedPartition(Swap(s, fl[1], fl[2]), fl[1] + 1, fl[2], pivot, key) :
                fl \in {<<ScanUp(s, first, pivot, key),
                          ScanDown(s, last - 1, pivot, key)>>}})

RECURSIVE IntrosortLoop(_, _, _, _)
IntrosortLoop(s, first, last, key) ==
    IF last - first <= 16 THEN s
    ELSE ByValue({IntrosortLoop(IntrosortLoop(p.s, p.cut, last, key), first, p.cut, key) :
                     p \in {UnguardedPartition(
                                MoveMedianToFirst(s, first, first + 1,
                                                  first + ((last - first) \div 2),
                                                  last - 1, key),
                                first + 1, last, first, key)}})

\* std::sort(ml.begin(), ml.end(), comp) with comp(a, c) = key[a] > key[c]
StdSort(ml, key) ==
    ByValue({SortDesc(t, key) : t \in {IntrosortLoop(ml, 1, Len(ml) + 1, key)}})

\* the lambda scoreOf of Search::orderMoves
ScoreOf(b, m, ttMove, k, h, ply) ==
    IF m = ttMove THEN 30000000
    ELSE IF IsCapture(b, m) THEN 20000000 + mvv_lva(b, m)
    ELSE IF IsKiller(k, ply, m) THEN 15000000
    ELSE 10000000 + HistoryScore(h, m)

\* Search::orderMoves
OrderMoves(b, ml, ttMove, k, h, ply) ==
    ByValue({StdSort(ml, key) :
                key \in {[m \in {ml[i] : i \in 1..Len(ml)} |->
                             ScoreOf(b, m, ttMove, k, h, ply)]}})

\* the MVV-LVA sort of the captures in Search::qsearch
OrderCaptures(b, caps) ==
    ByValue({StdSort(caps, key) :
                key \in {[m \in {caps[i] : i \in 1..Len(caps)} |-> mvv_lva(b, m)]}})

(***************************************************************************)
(* search.cpp: negamax and qsearch as a stack machine.                     *)
(*                                                                         *)
(* A searcher record s holds the members of one Search object (tt, hist,   *)
(* kill, nodes), the recursion stack of negamax/qsearch frames, the call   *)
(* about to be entered (call) and the value the root call returned (retv). *)
(* One step enters one node, up to the nodes_++ of the next node: that is  *)
(* the only place where a node reads the stop flag and the clock.          *)
(***************************************************************************)
NoCall == [kind |-> "none", b |-> 0, depth |-> 0, alpha |-> 0, beta |-> 0, ply |-> 0]

Call(kind, b, depth, alpha, beta, ply) ==
    [kind |-> kind, b |-> b, depth |-> depth, alpha |-> alpha, beta |-> beta, ply |-> ply]

\* kind: "N" the move loop of negamax, "QE" the evasion loop of qsearch,
\* "QC" the capture loop of qsearch
Frame(kind, b, depth, alpha, beta, alphaOrig, ply, ml, best) ==
    [kind |-> kind, b |-> b, depth |-> depth, alpha |-> alpha, beta |-> beta,
     alphaOrig |-> alphaOrig, ply |-> ply, ml |-> ml, idx |-> 1,
     best |-> best, bestMove |-> NO_MOVE, searched |-> 0]

\* a move that is neither a capture on board b nor a promotion
IsQuietOn(b, m) == ~IsCapture(b, m) /\ MoveType(m) # PROMOTION

\* the late-move reduction test of negamax (search.cpp:134-137); b is the
\* board after makeMove(m), as in the source
SubDepth(b, m, depth, movesSearched) ==
    IF depth - 1 > 0 /\ movesSearched >= 4 /\ IsQuietOn(b, m)
    THEN depth - 2
    ELSE depth - 1

\* the recursive call made for move f.ml[f.idx] of frame f
ChildCall(f) ==
    LET m == f.ml[f.idx]
        nb == MakeMove(f.b, m)
    IN IF f.kind = "N"
       THEN Call("N", nb, SubDepth(nb, m, f.depth, f.searched), -f.beta, -f.alpha, f.ply + 1)
       ELSE Call("Q", nb, 0, -f.beta, -f.alpha, f.ply + 1)

\* (nodes_++ & mask) == 0, with the mask of negamax or of qsearch
\* a qsearch that polls on the mask of negamax shifted by one bit
PollDueWideMask(kind, nodes) ==
    IF kind = "N" THEN nodes % (2 ^ NegamaxPollBits) = 0
    ELSE nodes % (2 ^ (NegamaxPollBits + 1)) = 0

PollDue(kind, nodes) ==
    IF kind = "N" THEN nodes % (2 ^ NegamaxPollBits) = 0
    ELSE nodes % (2 ^ QsearchPollBits) = 0

\* the result of entering a node: it returned v, or it set up s.call
Returned(s, v) == [ret |-> TRUE, v |-> v, s |-> s]
Descend(s) == [ret |-> FALSE, v |-> 0, s |-> s]

Push(s, f) == [s EXCEPT !.stack = Append(s.stack, f), !.call = ChildCall(f)]

\* the captures and promotions of a move list, in list order (search.cpp:69-72)
RECURSIVE CapturesOf(_, _)
CapturesOf(b, ml) ==
    IF ml = <<>> THEN <<>>
    ELSE LET rest == CapturesOf(b, SubSeq(ml, 1, Len(ml) - 1))
             m == ml[Len(ml)]
         IN IF IsCapture(b, m) \/ MoveType(m) = PROMOTION THEN Append(rest, m) ELSE rest

\* Search::qsearch from its entry to its first recursive call or its return
\* (search.cpp:41-83); up is the value timeUp() has at this node
EnterQsearch(s0, c, up) ==
    LET s == [s0 EXCEPT !.nodes = s0.nodes + 1, !.call = NoCall,
                        !.unpolled = IF PollDue("Q", s0.nodes) THEN 0
                                     ELSE s0.unpolled + 1]
    IN IF PollDue("Q", s0.nodes) /\ up
       THEN Returned([s EXCEPT !.obs = IF s0.obs = -1 THEN s.nodes ELSE s0.obs,
                               !.cache = CacheInsert(s0.cache, c.b)],
                     Evaluate(c.b))
       ELSE IF InCheck(c.b)
       THEN LET evs == LegalMoves(c.b)
            IN IF evs = <<>> THEN Returned(s, -mate_score(c.ply))
               ELSE Descend(Push(s, Frame("QE", c.b, 0, c.alpha, c.beta, c.alpha,
                                          c.ply, evs, -INF)))
       ELSE LET stand == Evaluate(c.b)
                alpha == Max(c.alpha, stand)
                caps == CapturesOf(c.b, LegalMoves(c.b))
                se == [s EXCEPT !.cache = CacheInsert(s0.cache, c.b)]
            IN IF stand >= c.beta THEN Returned(se, stand)
               ELSE IF caps = <<>> THEN Returned(se, stand)
               ELSE ByValue({Descend(Push(se, f)) :
                                f \in {Frame("QC", c.b, 0, alpha, c.beta, c.alpha,
                                              c.ply, OrderCaptures(c.b, caps), stand)}})

\* Search::negamax from its entry to its first recursive call or its return
\* (search.cpp:94-138); a node at depth <= 0 hands over to qsearch
EnterNegamax(s0, c, up) ==
    LET s == [s0 EXCEPT !.nodes = s0.nodes + 1, !.call = NoCall,
                        !.unpolled = IF PollDue("N", s0.nodes) THEN 0
                                     ELSE s0.unpolled + 1]
        pr == Probe(s.tt, Hash(c.b))
        ttMove == IF pr.hit THEN pr.e.move ELSE NO_MOVE
        usable == pr.hit /\ pr.e.depth >= c.depth
        ttScore == from_tt(pr.e.score, c.ply)
        alpha == IF usable /\ pr.e.flag = LOWER /\ ttScore > c.alpha THEN ttScore ELSE c.alpha
        beta == IF usable /\ pr.e.flag = UPPER /\ ttScore < c.beta THEN ttScore ELSE c.beta
        ml == LegalMoves(c.b)
        depth == IF InCheck(c.b) THEN c.depth + 1 ELSE c.depth
    IN IF PollDue("N", s0.nodes) /\ up
       THEN Returned([s EXCEPT !.obs = IF s0.obs = -1 THEN s.nodes ELSE s0.obs,
                               !.cache = CacheInsert(s0.cache, c.b)],
                     Evaluate(c.b))
       ELSE IF usable /\ pr.e.flag = EXACT THEN Returned(s, ttScore)
       ELSE IF usable /\ alpha >= beta THEN Returned(s, ttScore)
       ELSE IF c.depth <= 0
       THEN Descend([s EXCEPT !.call = Call("Q", c.b, 0, alpha, beta, c.ply)])
       ELSE IF ml = <<>>
       THEN Returned(s, IF InCheck(c.b) THEN -mate_score(c.ply) ELSE 0)
       ELSE ByValue({Descend(Push(s, f)) :
                        f \in {Frame("N", c.b, depth, alpha, beta, c.alpha, c.ply,
                                      OrderMoves(c.b, ml, ttMove, s.kill, s.hist, c.ply),
                                      -INF)}})

\* the TT flag of a finished negamax node (search.cpp:166-169)
StoreFlag(bestScore, alphaOrig, beta) ==
    IF bestScore <= alphaOrig THEN UPPER
    ELSE IF bestScore >= beta THEN LOWER
    ELSE EXACT

\* the body of the move loop after the recursive call returned v to frame f
\* (search.cpp:139-162, 54-58, 84-89): the frame with its new best, alpha and
\* count, and the searcher with its history and killers
AfterChild(s, f, v) ==
    LET sc == -v
        m == f.ml[f.idx]
        best == IF sc > f.best THEN sc ELSE f.best
        bestMove == IF sc > f.best THEN m ELSE f.bestMove
        alpha == IF f.kind = "N"
                 THEN (IF sc > f.alpha THEN sc ELSE f.alpha)
                 ELSE (IF best > f.alpha THEN best ELSE f.alpha)
        quiet == f.kind = "N" /\ IsQuietOn(f.b, m)
        raised == quiet /\ sc > f.alpha
        cut == alpha >= f.beta
        h1 == IF raised THEN HistoryBonus(s.hist, m, Min(2000, 100 + f.depth * f.depth))
              ELSE s.hist
        k1 == IF raised THEN KillersPush(s.kill, f.ply, m) ELSE s.kill
        h2 == IF quiet /\ cut THEN HistoryBonus(h1, m, Min(4000, 200 + f.depth * f.depth))
              ELSE h1
        k2 == IF quiet /\ cut THEN KillersPush(k1, f.ply, m) ELSE k1
    IN [f |-> [f EXCEPT !.best = best, !.bestMove = bestMove, !.alpha = alpha,
                        !.searched = f.searched + 1],
        cut |-> cut,
        s |-> [s EXCEPT !.hist = h2, !.kill = k2]]

\* a value v is returned to the frames on the stack, until a frame makes its
\* next recursive call or the root call returns (retv)
RECURSIVE Unwind(_, _)
\* the frame on top of the stack after AfterChild gave r: it makes its next
\* call, or it stores its result (negamax, search.cpp:165-172) and returns
UnwindTop(s, r) ==
    LET n == Len(s.stack)
        f == r.f
    IN IF ~r.cut /\ f.idx < Len(f.ml)
       THEN ByValue({[r.s EXCEPT !.stack = [s.stack EXCEPT ![n] = g], !.call = ChildCall(g)] :
                        g \in {[f EXCEPT !.idx = f.idx + 1]}})
       ELSE ByValue({Unwind(popped, f.best) :
                        popped \in {[r.s EXCEPT
                            !.stack = SubSeq(s.stack, 1, n - 1),
                            !.tt = IF f.kind = "N"
                                   THEN Store(r.s.tt, Hash(f.b), f.bestMove, f.depth,
                                              to_tt(f.best, f.ply),
                                              StoreFlag(f.best, f.alphaOrig, f.beta))
                                   ELSE r.s.tt]}})

Unwind(s, v) ==
    IF s.stack = <<>> THEN [s EXCEPT !.call = NoCall, !.retv = v]
    ELSE ByValue({UnwindTop(s, r) : r \in {AfterChild(s, s.stack[Len(s.stack)], v)}})

\* one node: the pending call is entered and what it returns is unwound
VisitNode(s, up) ==
    ByValue({IF r.ret THEN Unwind(r.s, r.v) ELSE r.s :
                r \in {IF s.call.kind = "N" THEN EnterNegamax(s, s.call, up)
                       ELSE EnterQsearch(s, s.call, up)}})

\* the nodes that follow without a poll of timeUp(): the searcher runs on to
\* the next node whose poll is due, or until the root call returns
RECURSIVE RunToPoll(_)
RunToPoll(s) ==
    IF s.call.kind = "none" \/ PollDue(s.call.kind, s.nodes) THEN s
    ELSE ByValue({RunToPoll(t) : t \in {VisitNode(s, FALSE)}})

\* Search::extractPV: the packed moves of the principal variation
RECURSIVE ExtractPVFrom(_, _, _)
ExtractPVFrom(tt, b, left) ==
    LET pr == Probe(tt, Hash(b))
        ml == LegalMoves(b)
    IN IF left = 0 \/ ~pr.hit \/ pr.e.move = NO_MOVE THEN <<>>
       ELSE IF ~\E i \in 1..Len(ml) : ml[i] = pr.e.move THEN <<>>
       ELSE <<pr.e.move>> \o ByValue({ExtractPVFrom(tt, nb, left - 1) :
                                         nb \in {MakeMove(b, pr.e.move)}})

ExtractPV(tt, root) == ExtractPVFrom(tt, root, 64)

(***************************************************************************)
(* State.                                                                  *)
(***************************************************************************)
VARIABLES
    board_,      \* UciDriver::board_: the position id of the driver's board
    stopFlag_,   \* UciDriver::stopFlag_
    searching_,  \* UciDriver::searching_
    threads_,    \* UciDriver::threads_
    nsearchers,  \* searchers_.size()
    sr,          \* the Search objects and the frames of their go() calls
    worker,      \* worker_: "none" (not joinable), "starting", "running", "finished"
    wlim,        \* the SearchLimits captured by the worker lambda
    results,     \* the worker's vector<SearchResult>
    upc,         \* where the UCI thread is: "read", "go_join", "pos_join", "quit_join", "exit"
    ucmd,        \* the command line being handled
    ncmds,       \* how many command lines were read
    out,         \* the bestmove lines written to stdout
    goCount,     \* how many workers were launched
    outstanding, \* how many launched workers have not yet ended
    eval_cache,  \* eval.cpp: the keys of the global eval_cache
    unit         \* the component exercised on its own, and its last call

\* no component is exercised on its own
NoUnit == [kind |-> "none"]

\* the driver and its searchers, which a component exercised on its own
\* leaves alone
driver == <<board_, stopFlag_, searching_, threads_, nsearchers, sr, worker, wlim,
            results, upc, ucmd, ncmds, out, goCount, outstanding, eval_cache>>

vars == <<board_, stopFlag_, searching_, threads_, nsearchers, sr, worker, wlim,
          results, upc, ucmd, ncmds, out, goCount, outstanding, eval_cache, unit>>

Searchers == 1..MaxThreads

\* struct SearchLimits as parseLimits first sets it (uci.cpp:115-116)
DefaultLimits == [timeMs |-> 1000, depth |-> 0, infinite |-> FALSE]

\* struct SearchResult
DefaultResult == [best |-> NO_MOVE, bestScore |-> 0]

\* Search::Search: a fresh table, cleared history and killers; the locals of
\* go() and the ghost fields at rest
NewSearch ==
    [tt |-> NewTT, hist |-> HistoryClear, kill |-> KillersClear, nodes |-> 0,
     lim |-> DefaultLimits, stack |-> <<>>, call |-> NoCall, retv |-> 0,
     pc |-> "idle", d |-> 0, maxDepth |-> 0, best |-> NO_MOVE, bestScore |-> 0,
     prevScore |-> 0, alpha |-> 0, beta |-> 0, re |-> FALSE, score |-> 0,
     expired |-> FALSE, infos |-> <<>>, cache |-> {},
     obs |-> -1, unpolled |-> 0, good |-> [n |-> 0, best |-> NO_MOVE, score |-> 0],
     aborted |-> [n |-> 0, score |-> 0, pv |-> <<>>]]

\* the locals of go() once it has returned
AtRest(s) ==
    [s EXCEPT !.stack = <<>>, !.call = NoCall, !.retv = 0, !.d = 0, !.maxDepth = 0,
              !.best = NO_MOVE, !.bestScore = 0, !.prevScore = 0, !.alpha = 0,
              !.beta = 0, !.re = FALSE, !.score = 0]

\* a timeUp() that reads the clock only: the stop flag is never looked at
TimeUpClockOnly(i) ==
    IF sr[i].lim.infinite THEN FALSE
    ELSE sr[i].expired

\* Search::timeUp; expired stands for elapsed >= lim_.timeMs
TimeUp(i) ==
    IF sr[i].lim.infinite THEN stopFlag_
    ELSE stopFlag_ \/ sr[i].expired

\* the steady clock passes lim_.timeMs since t0_ (the clock is not read
\* under limits.infinite)
Tick(i) ==
    /\ sr[i].pc \in {"iter", "search", "asp", "end"}
    /\ ~sr[i].lim.infinite
    /\ ~sr[i].expired
    /\ sr' = [sr EXCEPT ![i].expired = TRUE]
    /\ UNCHANGED <<board_, stopFlag_, searching_, threads_, nsearchers, worker, wlim,
                   results, upc, ucmd, ncmds, out, goCount, outstanding, unit, eval_cache>>

\* go() returns res to the searcher thread, which stores it in results[i]
\* (uci.cpp:181)
Return(i, s, res) ==
    /\ sr' = [sr EXCEPT ![i] = [AtRest(s) EXCEPT !.pc = "done"]]
    /\ results' = [results EXCEPT ![i] = res]

\* a go() that starts without a best move
RootFallbackNone(rootMoves) == NO_MOVE

\* "best = rootMoves.front()": the move go() returns when no iteration
\* completes (search.cpp:189)
RootFallback(rootMoves) == rootMoves[1]

\* a loop bound that ignores limits.depth
maxDepthAny(lim) == DepthCap

\* "int maxDepth = (lim.depth > 0 ? lim.depth : 64)" (search.cpp:188), with
\* DepthCap in the place of 64
maxDepth(lim) == IF lim.depth > 0 THEN lim.depth ELSE DepthCap

\* Search::go, search.cpp:176-191
GoStart(i) ==
    /\ sr[i].pc = "start"
    /\ LET s == [sr[i] EXCEPT !.lim = wlim, !.nodes = 0, !.expired = FALSE,
                              !.infos = <<>>, !.obs = -1, !.unpolled = 0,
                              !.aborted = [n |-> 0, score |-> 0, pv |-> <<>>]]
           rootMoves == LegalMoves(board_)
       IN IF rootMoves = <<>>
          THEN Return(i, [s EXCEPT !.good = [n |-> 0, best |-> NO_MOVE, score |-> 0]],
                      [best |-> NO_MOVE, bestScore |-> 0])
          ELSE /\ sr' = [sr EXCEPT ![i] =
                    [s EXCEPT !.pc = "iter", !.d = 1,
                              !.maxDepth = maxDepth(wlim),
                              !.best = RootFallback(rootMoves), !.bestScore = -INF,
                              !.prevScore = 0,
                              !.good = [n |-> 0, best |-> RootFallback(rootMoves),
                                        score |-> -INF]]]
               /\ UNCHANGED results
    /\ UNCHANGED <<board_, stopFlag_, searching_, threads_, nsearchers, worker, wlim,
                   upc, ucmd, ncmds, out, goCount, outstanding, unit, eval_cache>>

\* the aspiration window of iteration d (search.cpp:197-203)
WindowAlpha(d, prevScore) == IF d > 1 THEN prevScore - 25 ELSE -INF
WindowBeta(d, prevScore) == IF d > 1 THEN prevScore + 25 ELSE INF

\* the head of the iteration loop (search.cpp:194-205, 213-214)
IterBegin(i) ==
    /\ sr[i].pc = "iter"
    /\ LET s == sr[i]
           a == WindowAlpha(s.d, s.prevScore)
           b == WindowBeta(s.d, s.prevScore)
       IN IF TimeUp(i)
          THEN Return(i, s, [best |-> s.best, bestScore |-> s.bestScore])
          ELSE /\ sr' = [sr EXCEPT ![i] =
                    [s EXCEPT !.pc = "search", !.alpha = a, !.beta = b, !.re = FALSE,
                              !.stack = <<>>, !.call = Call("N", board_, s.d, a, b, 0)]]
               /\ UNCHANGED results
    /\ UNCHANGED <<board_, stopFlag_, searching_, threads_, nsearchers, worker, wlim,
                   upc, ucmd, ncmds, out, goCount, outstanding, unit, eval_cache>>

\* the pending node of negamax or qsearch, which polls timeUp() when its poll
\* is due, and the nodes after it up to the next poll; when the root call
\* returns, score is set
Node(i) ==
    /\ sr[i].pc = "search"
    /\ \E t \in {VisitNode([sr[i] EXCEPT !.cache = eval_cache], TimeUp(i))} :
       \E u \in {RunToPoll(t)} :
       LET s == [u EXCEPT !.cache = {}]
       IN /\ sr' = [sr EXCEPT ![i] =
                IF s.call.kind = "none"
                THEN [s EXCEPT !.score = s.retv,
                               !.pc = IF s.d > 1 /\ ~s.re THEN "asp" ELSE "end"]
                ELSE s]
          /\ eval_cache' = u.cache
    /\ UNCHANGED <<board_, stopFlag_, searching_, threads_, nsearchers, worker, wlim,
                   results, upc, ucmd, ncmds, out, goCount, outstanding, unit>>

\* the re-search test (search.cpp:206-211)
Aspiration(i) ==
    /\ sr[i].pc = "asp"
    /\ LET s == sr[i]
       IN sr' = [sr EXCEPT ![i] =
             IF ~TimeUp(i) /\ (s.score <= s.alpha \/ s.score >= s.beta)
             THEN [s EXCEPT !.pc = "search", !.alpha = -INF, !.beta = INF, !.re = TRUE,
                            !.stack = <<>>, !.call = Call("N", board_, s.d, -INF, INF, 0)]
             ELSE [s EXCEPT !.pc = "end"]]
    /\ UNCHANGED <<board_, stopFlag_, searching_, threads_, nsearchers, worker, wlim,
                   results, upc, ucmd, ncmds, out, goCount, outstanding, unit, eval_cache>>

\* an iteration loop without the break of line 216
DiscardNever(up) == FALSE

\* "if (timeUp()) break;" after the search of an iteration (search.cpp:216)
DiscardIteration(up) == up

\* the end of an iteration (search.cpp:216-248) and the loop's ++d, d <= maxDepth
IterEnd(i) ==
    /\ sr[i].pc = "end"
    /\ \E pv \in {ExtractPV(sr[i].tt, board_)} :
       LET s == sr[i]
           up == TimeUp(i)
           best == IF pv # <<>> THEN pv[1] ELSE s.best
           \* ghost: the iteration counts as completed iff timeUp() is false here
           g == IF up
                THEN [s EXCEPT !.aborted = [n |-> s.aborted.n + 1, score |-> s.score, pv |-> pv]]
                ELSE [s EXCEPT !.good = [n |-> s.good.n + 1, score |-> s.score,
                                         best |-> IF pv # <<>> THEN pv[1] ELSE s.good.best]]
           t == [g EXCEPT !.best = best, !.bestScore = s.score, !.prevScore = s.score,
                          !.infos = Append(s.infos, [depth |-> s.d, score |-> s.score, pv |-> pv]),
                          !.d = s.d + 1, !.pc = "iter"]
       IN IF DiscardIteration(up)
          THEN Return(i, g, [best |-> s.best, bestScore |-> s.bestScore])
          ELSE IF t.d > t.maxDepth
          THEN Return(i, t, [best |-> t.best, bestScore |-> t.bestScore])
          ELSE /\ sr' = [sr EXCEPT ![i] = t]
               /\ UNCHANGED results
    /\ UNCHANGED <<board_, stopFlag_, searching_, threads_, nsearchers, worker, wlim,
                   upc, ucmd, ncmds, out, goCount, outstanding, unit, eval_cache>>

(***************************************************************************)
(* uci.cpp                                                                 *)
(***************************************************************************)
FileChars == <<"a", "b", "c", "d", "e", "f", "g", "h">>
RankChars == <<"1", "2", "3", "4", "5", "6", "7", "8">>

\* Square::file() and Square::rank() of a square index
FileOf(sq) == sq % 8
RankOf(sq) == sq \div 8

\* UciDriver::move_to_uci
move_to_uci(m) ==
    LET f == MoveFrom(m)
        t == MoveTo(m)
        sq == <<FileChars[FileOf(f) + 1], RankChars[RankOf(f) + 1],
                FileChars[FileOf(t) + 1], RankChars[RankOf(t) + 1]>>
    IN IF MoveType(m) = PROMOTION
       THEN Append(sq, IF PromotionType(m) = KNIGHT THEN "n"
                       ELSE IF PromotionType(m) = BISHOP THEN "b"
                       ELSE IF PromotionType(m) = ROOK THEN "r"
                       ELSE "q")
       ELSE sq

\* the index of character c in the sequence chars, or -1
CharIndex(chars, c) ==
    IF \E k \in 1..Len(chars) : chars[k] = c
    THEN (CHOOSE k \in 1..Len(chars) : chars[k] = c) - 1
    ELSE -1

\* Square(std::string_view) for a file letter and a rank digit
SquareOf(fc, rc) == CharIndex(RankChars, rc) * 8 + CharIndex(FileChars, fc)

\* UciDriver::uci_to_move
uci_to_move(b, u) ==
    IF Len(u) < 4 THEN NO_MOVE
    ELSE LET from == SquareOf(u[1], u[2])
             to == SquareOf(u[3], u[4])
             hasPromo == Len(u) >= 5
             promo == IF ~hasPromo THEN QUEEN
                      ELSE IF u[5] \in {"n", "N"} THEN KNIGHT
                      ELSE IF u[5] \in {"b", "B"} THEN BISHOP
                      ELSE IF u[5] \in {"r", "R"} THEN ROOK
                      ELSE QUEEN
             ml == LegalMoves(b)
             ok(m) == /\ MoveFrom(m) = from
                      /\ MoveTo(m) = to
                      /\ IF hasPromo
                         THEN MoveType(m) = PROMOTION /\ PromotionType(m) = promo
                         ELSE MoveType(m) # PROMOTION
         IN IF \E k \in 1..Len(ml) : ok(ml[k])
            THEN ml[CHOOSE k \in 1..Len(ml) :
                        ok(ml[k]) /\ \A j \in 1..(k - 1) : ~ok(ml[j])]
            ELSE NO_MOVE

\* the loop over the tokens after "moves" (uci.cpp:81-85, 101-105)
RECURSIVE ApplyMoves(_, _)
ApplyMoves(b, toks) ==
    IF toks = <<>> THEN b
    ELSE LET m == uci_to_move(b, Head(toks))
         IN IF m # NO_MOVE THEN ApplyMoves(MakeMove(b, m), Tail(toks)) ELSE b

\* UciDriver::cmd_position after the join (uci.cpp:67-111).  A line is
\* base "startpos", "fen" or "none" (neither word), the position its FEN
\* text describes (0: the text is empty) and the tokens after "moves".
PositionBoard(b, line) ==
    IF line.base = "startpos" THEN ApplyMoves(START, line.moves)
    ELSE IF line.base = "fen"
    THEN ApplyMoves(IF line.fen # 0 THEN line.fen ELSE b, line.moves)
    ELSE START

\* integer division of C++ (truncation toward zero)
CDiv(a, b) == IF a >= 0 THEN a \div b ELSE -((-a) \div b)

\* std::clamp
Clamp(v, lo, hi) == IF v < lo THEN lo ELSE IF hi < v THEN hi ELSE v

\* the largest int
IntMax == 2147483647

\* x + y on int, for x >= 0: the sum when it fits; a signed overflow is
\* undefined, a build yields the wrapped sum or keeps the exact sum in a wider
\* register (IntMax stands for every exact sum beyond it)
AddInt(x, y) ==
    IF y > 0 /\ x > IntMax - y
    THEN {(x - IntMax - 1) + (y - IntMax - 1), IntMax}
    ELSE {x + y}

\* UciDriver::parseLimits; a holds the values read from the go line; the set
\* of the limits it can return
parseLimits(a, whiteToMove) ==
    LET myTime == IF whiteToMove THEN a.wtime ELSE a.btime
        myInc == IF whiteToMove THEN a.winc ELSE a.binc
        mtg == IF a.movestogo > 0 THEN a.movestogo ELSE 30
        slice == CDiv(myTime, Max(1, mtg))
    IN IF a.infinite THEN {[timeMs |-> 24 * 60 * 60 * 1000, depth |-> 0, infinite |-> TRUE]}
       ELSE IF a.movetime > 0 THEN {[timeMs |-> a.movetime, depth |-> 0, infinite |-> FALSE]}
       ELSE IF a.depth > 0 THEN {[timeMs |-> 30 * 1000, depth |-> a.depth, infinite |-> FALSE]}
       ELSE IF myTime >= 0
       THEN {[timeMs |-> Clamp(budget, 20, Max(50, myTime - 10)), depth |-> 0,
              infinite |-> FALSE] : budget \in AddInt(slice, CDiv(myInc, 2))}
       ELSE {[timeMs |-> 500, depth |-> 0, infinite |-> FALSE]}

\* the values parseLimits starts from (uci.cpp:120-121)
GoLine == [wtime |-> -1, btime |-> -1, winc |-> 0, binc |-> 0, movestogo |-> -1,
           movetime |-> -1, depth |-> -1, infinite |-> FALSE]

\* the go lines of the model: go infinite, go movetime 100, go depth 1
GoLines ==
    {[GoLine EXCEPT !.infinite = TRUE], [GoLine EXCEPT !.movetime = 100],
     [GoLine EXCEPT !.depth = 1]}

\* the position lines of the model
PositionLines ==
    {[base |-> "startpos", fen |-> 0, moves |-> <<>>],
     [base |-> "startpos", fen |-> 0, moves |-> <<<<"b", "1", "a", "1">>, <<"z", "z">>>>],
     [base |-> "none", fen |-> 0, moves |-> <<>>]}
    \cup {[base |-> "fen", fen |-> r, moves |-> <<>>] : r \in {RM2, PX, PY1, STALE}}

NoLine == [base |-> "none", fen |-> 0, moves |-> <<>>]

\* a driver that does not wait for the worker
JoinedAlways == TRUE

\* "if (worker_.joinable()) worker_.join();" returns (uci.cpp:17, 66, 159)
Joined == worker \in {"none", "finished"}

\* the searcher pool is grown or cut to n searchers (uci.cpp:166-173)
ResizeSearchers(n) ==
    [i \in Searchers |->
        IF i <= n /\ i <= nsearchers THEN sr[i] ELSE NewSearch]

\* a line "go ..." is read: uci.cpp:158
CmdGo(a) ==
    /\ upc = "read" /\ ncmds < MaxCmds
    /\ stopFlag_' = TRUE
    /\ upc' = "go_join"
    /\ ucmd' = [go |-> a, pos |-> NoLine]
    /\ ncmds' = ncmds + 1
    /\ UNCHANGED <<board_, searching_, threads_, nsearchers, sr, worker, wlim, results,
                   out, goCount, outstanding, unit, eval_cache>>

\* cmd_go after the join: uci.cpp:160-202, the worker thread is created
CmdGoLaunch ==
    /\ upc = "go_join" /\ Joined
    /\ wlim' \in parseLimits(ucmd.go, WhiteToMove(board_))
    /\ stopFlag_' = FALSE
    /\ searching_' = TRUE
    /\ sr' = ResizeSearchers(threads_)
    /\ nsearchers' = threads_
    /\ worker' = "starting"
    /\ goCount' = goCount + 1
    /\ outstanding' = outstanding + 1
    /\ upc' = "read"
    /\ UNCHANGED <<board_, threads_, results, ucmd, ncmds, out, unit, eval_cache>>

\* a line "position ..." is read: uci.cpp:65
CmdPosition(line) ==
    /\ upc = "read" /\ ncmds < MaxCmds
    /\ stopFlag_' = TRUE
    /\ upc' = "pos_join"
    /\ ucmd' = [go |-> GoLine, pos |-> line]
    /\ ncmds' = ncmds + 1
    /\ UNCHANGED <<board_, searching_, threads_, nsearchers, sr, worker, wlim, results,
                   out, goCount, outstanding, unit, eval_cache>>

\* cmd_position after the join: uci.cpp:67-111
CmdPositionSet ==
    /\ upc = "pos_join" /\ Joined
    /\ worker' = "none"
    /\ searching_' = FALSE
    /\ board_' = PositionBoard(board_, ucmd.pos)
    /\ upc' = "read"
    /\ UNCHANGED <<stopFlag_, threads_, nsearchers, sr, wlim, results, ucmd, ncmds,
                   out, goCount, outstanding, unit, eval_cache>>

\* a line "stop" is read: uci.cpp:248-250
CmdStop ==
    /\ upc = "read" /\ ncmds < MaxCmds
    /\ stopFlag_' = TRUE
    /\ ncmds' = ncmds + 1
    /\ UNCHANGED <<board_, searching_, threads_, nsearchers, sr, worker, wlim, results,
                   upc, ucmd, out, goCount, outstanding, unit, eval_cache>>

\* a line "quit" is read (uci.cpp:251-254); loop() returns and the driver is
\* destroyed (uci.cpp:15-18)
CmdQuit ==
    /\ upc = "read" /\ ncmds < MaxCmds
    /\ stopFlag_' = TRUE
    /\ upc' = "quit_join"
    /\ ncmds' = ncmds + 1
    /\ UNCHANGED <<board_, searching_, threads_, nsearchers, sr, worker, wlim, results,
                   ucmd, out, goCount, outstanding, unit, eval_cache>>

\* the destructor's join returns
Exit ==
    /\ upc = "quit_join" /\ Joined
    /\ worker' = "none"
    /\ upc' = "exit"
    /\ UNCHANGED <<board_, stopFlag_, searching_, threads_, nsearchers, sr, wlim, results,
                   ucmd, ncmds, out, goCount, outstanding, unit, eval_cache>>

\* the worker lambda starts: results(threads_) and one thread per searcher
\* (uci.cpp:177-183)
WorkerStart ==
    /\ worker = "starting"
    /\ results' = [i \in Searchers |-> DefaultResult]
    /\ sr' = [i \in Searchers |-> IF i <= threads_ THEN [sr[i] EXCEPT !.pc = "start"] ELSE sr[i]]
    /\ worker' = "running"
    /\ UNCHANGED <<board_, stopFlag_, searching_, threads_, nsearchers, wlim, upc, ucmd,
                   ncmds, out, goCount, outstanding, unit, eval_cache>>

\* the best of results[1..n]: a later result wins only with a greater score
\* (uci.cpp:186-190)
RECURSIVE Aggregate(_, _)
Aggregate(res, n) ==
    IF n = 1 THEN res[1]
    ELSE LET best == Aggregate(res, n - 1)
         IN IF res[n].bestScore > best.bestScore THEN res[n] ELSE best

\* the text after "bestmove " (uci.cpp:192-199)
BestmoveText(best, legal) ==
    LET b1 == IF best = NO_MOVE /\ legal # <<>> THEN legal[1] ELSE best
        bm == move_to_uci(b1)
        bm2 == IF bm = <<>> /\ legal # <<>> THEN move_to_uci(legal[1]) ELSE bm
    IN IF bm2 = <<>> THEN <<"0", "0", "0", "0">> ELSE bm2

\* a worker that writes its line twice
BestmoveLinesTwice(text) == <<text, text>>

\* the lines the worker writes to stdout: "bestmove " and the text, once
\* (uci.cpp:200)
BestmoveLines(text) == <<text>>

\* the searcher threads are joined and the worker writes bestmove
\* (uci.cpp:184-201)
WorkerFinish ==
    /\ worker = "running"
    /\ \A i \in 1..threads_ : sr[i].pc = "done"
    /\ out' = out \o BestmoveLines(BestmoveText(Aggregate(results, threads_).best,
                                                LegalMoves(board_)))
    /\ searching_' = FALSE
    /\ worker' = "finished"
    /\ outstanding' = outstanding - 1
    /\ sr' = [i \in Searchers |-> IF sr[i].pc = "done" THEN [sr[i] EXCEPT !.pc = "idle"] ELSE sr[i]]
    /\ UNCHANGED <<board_, stopFlag_, threads_, nsearchers, wlim, results, upc, ucmd,
                   ncmds, goCount, unit, eval_cache>>

(***************************************************************************)
(* Specifications.                                                         *)
(***************************************************************************)
\* the driver with n searcher threads, after k command lines were read
InitDriver(n, k) ==
    /\ board_ = START
    /\ stopFlag_ = FALSE
    /\ searching_ = FALSE
    /\ threads_ = n
    /\ nsearchers = n
    /\ sr = [i \in Searchers |-> NewSearch]
    /\ worker = "none"
    /\ wlim = DefaultLimits
    /\ results = [i \in Searchers |-> DefaultResult]
    /\ upc = "read"
    /\ ucmd = [go |-> GoLine, pos |-> NoLine]
    /\ ncmds = k
    /\ out = <<>>
    /\ goCount = 0
    /\ outstanding = 0
    /\ eval_cache = {}

\* the driver, and no component exercised on its own
InitWith(n, k) == InitDriver(n, k) /\ unit = NoUnit

\* The driver as constructed (uci.hpp:25-32, uci.cpp:10-13): one searcher.
Init == InitWith(1, 0)

\* The driver after its first command line, "setoption name Threads value
\* MaxThreads", was handled (uci.cpp:230-241).
InitSMP == InitWith(MaxThreads, 1)

SearchStep(i) ==
    \/ GoStart(i)
    \/ IterBegin(i)
    \/ Node(i)
    \/ Aspiration(i)
    \/ IterEnd(i)

Next ==
    \/ \E a \in GoLines : CmdGo(a)
    \/ CmdGoLaunch
    \/ \E line \in PositionLines : CmdPosition(line)
    \/ CmdPositionSet
    \/ CmdStop
    \/ CmdQuit
    \/ Exit
    \/ WorkerStart
    \/ WorkerFinish
    \/ \E i \in Searchers : SearchStep(i)
    \/ \E i \in Searchers : Tick(i)

Spec == Init /\ [][Next]_vars

\* the lazy-SMP driver: MaxThreads searcher threads per go
SpecSMP == InitSMP /\ [][Next]_vars

\* The worker thread and the searcher threads are scheduled by the operating
\* system: a thread that can take a step eventually takes it.  No fairness is
\* assumed of the command lines (stdin may stay silent) nor of the clock.
Fairness ==
    /\ WF_vars(WorkerStart)
    /\ WF_vars(WorkerFinish)
    /\ \A i \in Searchers : WF_vars(SearchStep(i))

SpecLive == Init /\ [][Next]_vars /\ Fairness

(***************************************************************************)
(* Properties.                                                             *)
(***************************************************************************)
\* the worker of the latest go has not ended
WorkerRunning == worker \in {"starting", "running"}

\* C1: every go produces exactly one bestmove line: while the worker of the
\* latest go runs, every earlier go has its line and the latest has none;
\* once it has ended (by itself or cancelled by a later stop, position or
\* go), every go has exactly one line.
C1_OneBestmovePerGo ==
    /\ WorkerRunning => Len(out) = goCount - 1
    /\ ~WorkerRunning => Len(out) = goCount

\* C1 witness: a second go followed a first, and both workers have ended
\* with their lines written
C1_Witness ==
    /\ goCount = 2
    /\ worker = "finished"
    /\ Len(out) = 2

\* m is in the legal move list of position b
IsLegal(b, m) == \E k \in 1..Len(LegalMoves(b)) : LegalMoves(b)[k] = m

\* searcher i has returned from the go() of the latest worker
GoReturned(i) ==
    /\ i <= threads_
    /\ \/ worker = "running" /\ sr[i].pc = "done"
       \/ worker = "finished"

\* C2: when the root position has no legal moves, the line written for go is
\* "bestmove 0000".
C2_NullMoveText ==
    (worker = "finished" /\ LegalMoves(board_) = <<>>)
        => out[Len(out)] = <<"0", "0", "0", "0">>

\* C3: when the root has a legal move, the move every searcher's go() returns
\* and the move written as bestmove after the aggregation are in the root's
\* legal move list, whatever the limits and whenever the search is cancelled.
C3_BestMoveLegal ==
    LegalMoves(board_) # <<>> =>
        /\ \A i \in Searchers : GoReturned(i) => IsLegal(board_, results[i].best)
        /\ worker = "finished" =>
               \E k \in 1..Len(LegalMoves(board_)) :
                   out[Len(out)] = move_to_uci(LegalMoves(board_)[k])

\* C3 witness: a cancelled go with two searchers whose results differ: the
\* second searcher's move, with the greater score, was written as bestmove
C3_Witness ==
    /\ worker = "finished"
    /\ threads_ = 2
    /\ stopFlag_
    /\ results[2].bestScore > results[1].bestScore
    /\ results[2].best # results[1].best
    /\ out[Len(out)] = move_to_uci(results[2].best)

\* b's side to move is checkmated
Checkmated(b) == LegalMoves(b) = <<>> /\ InCheck(b)

\* MatesIn(b, n): the side to move at b can force checkmate with at most n of
\* its own moves; MatedIn(b, n): the side to move at b is checkmated, or
\* every one of its moves lets the opponent mate with at most n moves
RECURSIVE MatesIn(_, _), MatedIn(_, _)
MatesIn(b, n) ==
    /\ n >= 1
    /\ \E k \in 1..Len(LegalMoves(b)) : MatedIn(MakeMove(b, LegalMoves(b)[k]), n - 1)

MatedIn(b, n) ==
    \/ Checkmated(b)
    \/ /\ n >= 1
       /\ LegalMoves(b) # <<>>
       /\ \A k \in 1..Len(LegalMoves(b)) : MatesIn(MakeMove(b, LegalMoves(b)[k]), n)

\* b is a forced mate in exactly n
MateIn(b, n) == MatesIn(b, n) /\ ~MatesIn(b, n - 1)

\* the mate distances of the positions of the game
MateDistances == {1, 2}

\* C4: for a root that is a forced mate in N, the first search of the engine
\* (fresh table), when it was not cancelled and completed an iteration of
\* depth 2N-1 or more, returns the score MATE - (2N-1) and a move that keeps
\* the mate in N.
C4_MateScoreExact ==
    \A n \in MateDistances :
        (/\ worker = "finished"
         /\ goCount = 1
         /\ MateIn(board_, n)
         /\ ~stopFlag_ /\ ~sr[1].expired
         /\ sr[1].aborted.n = 0 /\ sr[1].obs = -1
         /\ sr[1].good.n >= 2 * n - 1)
        => /\ results[1].bestScore = MATE - (2 * n - 1)
           /\ IsLegal(board_, results[1].best)
           /\ MatedIn(MakeMove(board_, results[1].best), n - 1)

\* C5: a stop flag set while a search runs ends it, for every limits: the
\* worker writes its bestmove line with no further command line needed (the
\* fairness is of the worker and searcher threads only), and a searcher that
\* sees the flag at the head of an iteration or at the re-search test starts
\* no further search of the root.
C5_StopEndsSearch ==
    /\ (stopFlag_ /\ WorkerRunning) ~> (Len(out) = goCount)
    /\ [][\A i \in Searchers :
            (stopFlag_ /\ sr[i].pc \in {"iter", "asp"}) => sr'[i].pc # "search"]_vars

\* C5 witness: a go infinite on a root with legal moves was ended by the stop
\* flag before the depth cap
C5_Witness ==
    /\ worker = "finished"
    /\ wlim.infinite
    /\ stopFlag_
    /\ LegalMoves(board_) # <<>>
    /\ sr[1].good.n < DepthCap

\* C6: after a node's poll has observed timeUp(), no new node is visited in
\* that search: the node counter stays at its value of the first observation.
C6_NoNodeAfterCancel ==
    \A i \in Searchers : sr[i].obs # -1 => sr[i].nodes = sr[i].obs

\* C7: a search under limits.infinite returns, and its bestmove line is
\* written, only with the stop flag set.
C7_InfiniteOnlyStop ==
    /\ \A i \in Searchers : (GoReturned(i) /\ wlim.infinite) => stopFlag_
    /\ (worker = "finished" /\ wlim.infinite) => stopFlag_

\* C8: what go() returns is the move and score of the last iteration that
\* completed before timeUp() became true (the first root move and -INF when
\* none completed), with one info line per completed iteration: an aborted
\* iteration contributes neither its score nor its PV move.
C8_LastCompletedIteration ==
    \A i \in Searchers :
        (GoReturned(i) /\ LegalMoves(board_) # <<>>) =>
            /\ results[i] = [best |-> sr[i].good.best, bestScore |-> sr[i].good.score]
            /\ Len(sr[i].infos) = sr[i].good.n

\* C8 witness: go() returned after a completed iteration and an aborted one
\* whose score and PV move differ from the returned ones
C8_Witness ==
    /\ GoReturned(1)
    /\ sr[1].good.n >= 1
    /\ sr[1].aborted.n = 1
    /\ sr[1].aborted.score # results[1].bestScore
    /\ sr[1].aborted.pv # <<>>
    /\ sr[1].aborted.pv[1] # results[1].best

\* C9: at most one go is outstanding, and the board changes only while no
\* worker is running.
C9_OneWorkerBoardQuiet ==
    /\ [](outstanding <= 1)
    /\ [][board_' # board_ => (outstanding = 0 /\ ~WorkerRunning)]_vars

\* C9 witness: a position line that arrived during a search has set the
\* board after the worker ended
C9_Witness ==
    /\ goCount = 1
    /\ Len(out) = 1
    /\ stopFlag_
    /\ worker = "none"
    /\ board_ # START

\* C10: during a go with several searchers, an entry one searcher's table
\* returns for a key is returned by every other searcher's probe of that key.
C10_SharedTable ==
    \A i, j \in Searchers : \A b \in Positions :
        (/\ worker = "running" /\ i <= threads_ /\ j <= threads_
         /\ Probe(sr[i].tt, Hash(b)).hit)
        => Probe(sr[j].tt, Hash(b)) = Probe(sr[i].tt, Hash(b))

(***************************************************************************)
(* tt.hpp on its own: one TranspositionTable, stored to and probed.        *)
(***************************************************************************)
\* keys that share slot 0, and one key of slot 1
TTKeys == {0, TTSize, 1}

\* (move, depth, score, flag) of the store calls: negamax stores at depth >= 1
TTStoreArgs ==
    {<<Quiet(12, 28), 3, 50, EXACT>>, <<Quiet(6, 21), 2, -20, LOWER>>,
     <<Quiet(6, 21), 3, 70, UPPER>>, <<Quiet(12, 28), 1, 0, EXACT>>}

\* a table as constructed; writer is a ghost: per slot, the key of the last
\* store call that addressed it
InitTT ==
    /\ InitDriver(1, 0)
    /\ unit = [kind |-> "tt", tt |-> NewTT,
               writer |-> [i \in 0..(TTSize - 1) |-> <<>>],
               last |-> [op |-> "none"]]

\* tt.store(key, a[1], a[2], a[3], a[4])
TTStore(key, a) ==
    /\ unit.kind = "tt"
    /\ unit' = [unit EXCEPT
                  !.tt = Store(unit.tt, key, a[1], a[2], a[3], a[4]),
                  !.writer[TTIndex(key)] = <<key>>,
                  !.last = [op |-> "store", key |-> key, move |-> a[1], depth |-> a[2],
                            score |-> a[3], flag |-> a[4], before |-> unit.tt]]
    /\ UNCHANGED driver

\* tt.probe(key)
TTProbe(key) ==
    /\ unit.kind = "tt"
    /\ unit' = [unit EXCEPT !.last = [op |-> "probe", key |-> key,
                                      res |-> Probe(unit.tt, key)]]
    /\ UNCHANGED driver

NextTT ==
    \/ \E key \in TTKeys : \E a \in TTStoreArgs : TTStore(key, a)
    \/ \E key \in TTKeys : TTProbe(key)

SpecTT == InitTT /\ [][NextTT]_vars

\* C11: store overwrites the slot exactly when the slot is empty, holds
\* another key, or the incoming depth is at least the stored depth; otherwise
\* every field of the slot stays as it was, so a shallower store of the same
\* key leaves the deeper entry and its move for probe to return.
C11_StoreReplacement ==
    (unit.kind = "tt" /\ unit.last.op = "store") =>
        LET l == unit.last
            i == TTIndex(l.key)
            old == l.before.table[i]
            now == unit.tt.table[i]
            overwrite == old.depth = -1 \/ old.key # l.key \/ l.depth >= old.depth
        IN /\ overwrite =>
                (/\ now.key = l.key /\ now.move = l.move /\ now.depth = l.depth
                 /\ now.score = l.score /\ now.flag = l.flag)
           /\ ~overwrite =>
                (/\ now = old
                 /\ Probe(unit.tt, l.key).hit
                 /\ Probe(unit.tt, l.key).e.depth = old.depth
                 /\ Probe(unit.tt, l.key).e.move = old.move)
           /\ \A j \in 0..(TTSize - 1) : j # i => unit.tt.table[j] = l.before.table[j]

\* C11 witness: store(k, e2e4, 3) then store(k, g1f3, 2): the slot still has
\* depth 3 and e2e4
C11_Witness ==
    /\ unit.kind = "tt" /\ unit.last.op = "store"
    /\ unit.last.depth = 2 /\ unit.last.move = Quiet(6, 21)
    /\ unit.last.before.table[TTIndex(unit.last.key)].key = unit.last.key
    /\ unit.last.before.table[TTIndex(unit.last.key)].depth = 3
    /\ unit.tt.table[TTIndex(unit.last.key)].depth = 3
    /\ unit.tt.table[TTIndex(unit.last.key)].move = Quiet(12, 28)

\* C12: probe(key) returns an entry only if the slot was last written by a
\* store of exactly that key; a slot never written is a miss for every key.
C12_ProbeHitsOnlyStoredKey ==
    (unit.kind = "tt" /\ unit.last.op = "probe" /\ unit.last.res.hit)
        => unit.writer[TTIndex(unit.last.key)] = <<unit.last.key>>

(***************************************************************************)
(* utils.hpp on its own: a score converted for the table and back.         *)
(***************************************************************************)
MaxPly == 3

\* scores around the two mate thresholds, around 0 and at both ends of
\* [-MATE, MATE]
ScoreSamples ==
    (-MATE..(-MATE + 2)) \cup ((-MATE + MATE_IN_MAX - 2)..(-MATE + MATE_IN_MAX + 2))
    \cup (-1..1)
    \cup ((MATE - MATE_IN_MAX - 2)..(MATE - MATE_IN_MAX + 2)) \cup ((MATE - 2)..MATE)

InitScore ==
    /\ InitDriver(1, 0)
    /\ \E s \in ScoreSamples : \E ply \in 0..MaxPly :
          unit = [kind |-> "score", s |-> s, ply |-> ply, step |-> "start",
                  stored |-> 0, back |-> 0]

\* stored = to_tt(s, ply)
ScoreToTT ==
    /\ unit.kind = "score" /\ unit.step = "start"
    /\ unit' = [unit EXCEPT !.step = "stored", !.stored = to_tt(unit.s, unit.ply)]
    /\ UNCHANGED driver

\* back = from_tt(stored, ply)
ScoreFromTT ==
    /\ unit.kind = "score" /\ unit.step = "stored"
    /\ unit' = [unit EXCEPT !.step = "back", !.back = from_tt(unit.stored, unit.ply)]
    /\ UNCHANGED driver

NextScore == ScoreToTT \/ ScoreFromTT

SpecScore == InitScore /\ [][NextScore]_vars

\* C13: for every score s in [-MATE, MATE] and every ply p >= 0,
\* from_tt(to_tt(s, p), p) = s.
C13_RoundTrip ==
    (unit.kind = "score" /\ unit.step = "back") => unit.back = unit.s

\* C13 witness: a mated score was shifted by a ply > 0 and came back
C13_Witness ==
    /\ unit.kind = "score" /\ unit.step = "back"
    /\ unit.s < -MATE + MATE_IN_MAX
    /\ unit.ply > 0
    /\ unit.stored = unit.s - unit.ply
    /\ unit.back = unit.s

(***************************************************************************)
(* UciDriver::parseLimits on its own: one go line, one side to move.       *)
(***************************************************************************)
\* the values of the go lines: clock times (absent, 0, short, long, the
\* largest int), increments, movestogo, movetime, depth
GoArgs ==
    [wtime : {-1, 0, 45, 60000, IntMax}, btime : {-1, 1000, 90000},
     winc : {0, 3, 2000}, binc : {0, 501},
     movestogo : {-1, 0, 1, 40}, movetime : {-1, 100}, depth : {-1, 2},
     infinite : BOOLEAN]

InitLimits ==
    /\ InitDriver(1, 0)
    /\ \E a \in GoArgs : \E w \in BOOLEAN :
          unit = [kind |-> "limits", a |-> a, white |-> w, parsed |-> FALSE,
                  lim |-> DefaultLimits]

\* lim = parseLimits(line)
LimitsParse ==
    /\ unit.kind = "limits" /\ ~unit.parsed
    /\ \E lim \in parseLimits(unit.a, unit.white) :
          unit' = [unit EXCEPT !.parsed = TRUE, !.lim = lim]
    /\ UNCHANGED driver

NextLimits == LimitsParse

SpecLimits == InitLimits /\ [][NextLimits]_vars

\* C14: for a go line with neither infinite, movetime > 0 nor depth > 0 and
\* with my_time >= 0, time_ms = clamp(my_time / mtg + my_inc / 2, 20,
\* max(50, my_time - 10)), where mtg = movestogo if > 0 else 30 and my_time,
\* my_inc are wtime, winc for White to move and btime, binc for Black.
C14_ClockBudget ==
    (/\ unit.kind = "limits" /\ unit.parsed
     /\ ~unit.a.infinite /\ ~(unit.a.movetime > 0) /\ ~(unit.a.depth > 0)
     /\ (IF unit.white THEN unit.a.wtime ELSE unit.a.btime) >= 0)
    => LET my_time == IF unit.white THEN unit.a.wtime ELSE unit.a.btime
           my_inc == IF unit.white THEN unit.a.winc ELSE unit.a.binc
           mtg == IF unit.a.movestogo > 0 THEN unit.a.movestogo ELSE 30
           hi == Max(50, my_time - 10)
           \* the sum is beyond hi when it is beyond the largest int
           beyond == my_inc \div 2 > 0 /\ my_time \div mtg > IntMax - my_inc \div 2
       IN unit.lim.timeMs =
             IF beyond THEN hi
             ELSE Clamp(my_time \div mtg + my_inc \div 2, 20, hi)

(***************************************************************************)
(* The driver with ucinewgame lines.                                       *)
(***************************************************************************)
\* Search::newGame (search.cpp:15-20) on the members of searcher s; the
\* fourth call, eval::clear_cache(), is on the global cache
NewGame(s) ==
    [s EXCEPT !.tt = NewGeneration(s.tt), !.hist = HistoryClear, !.kill = KillersClear]

\* a line "ucinewgame" is read (uci.cpp:218-219): newGame() on every searcher
\* of the pool, on the UCI thread, whatever the worker is doing
CmdNewGame ==
    /\ upc = "read" /\ ncmds < MaxCmds
    /\ sr' = [i \in Searchers |-> IF i <= nsearchers THEN NewGame(sr[i]) ELSE sr[i]]
    /\ eval_cache' = {}
    /\ ncmds' = ncmds + 1
    /\ UNCHANGED <<board_, stopFlag_, searching_, threads_, nsearchers, worker, wlim,
                   results, upc, ucmd, out, goCount, outstanding, unit>>

NextGame == Next \/ CmdNewGame

SpecGame == Init /\ [][NextGame]_vars

\* C15: after a ucinewgame handled while no search is running, every
\* searcher's history is all zero, both killer slots of every ply are
\* NO_MOVE, the evaluation cache is empty, and every transposition-table
\* entry is as it was: only the table's generation has advanced.
C15_NewGameClears ==
    [][(CmdNewGame /\ ~WorkerRunning) =>
          /\ eval_cache' = {}
          /\ \A i \in 1..nsearchers :
                /\ \A c \in HistCells : sr'[i].hist[c] = 0
                /\ \A ply \in KillerPlies :
                      sr'[i].kill.m1[ply] = NO_MOVE /\ sr'[i].kill.m2[ply] = NO_MOVE
                /\ sr'[i].tt.table = sr[i].tt.table
                /\ sr'[i].tt.gen = (sr[i].tt.gen + 1) % 256]_vars

\* C15 witness: after a search and a ucinewgame, the table is at generation
\* 1 and still has an entry stored at generation 0, with history, killers
\* and cache cleared
C15_Witness ==
    /\ ~WorkerRunning /\ goCount = 1
    /\ sr[1].tt.gen = 1
    /\ \E i \in 0..(TTSize - 1) :
          sr[1].tt.table[i].depth >= 1 /\ sr[1].tt.table[i].gen = 0
    /\ sr[1].hist = HistoryClear
    /\ sr[1].kill = KillersClear
    /\ eval_cache = {}

\* C16: a position line that names neither startpos nor fen is ignored: the
\* board after it is exactly the board before it.
C16_UnknownPositionIgnored ==
    [][(CmdPositionSet /\ ucmd.pos.base = "none") => board_' = board_]_vars

(***************************************************************************)
(* move_order.hpp on its own: one History table.                           *)
(***************************************************************************)
\* the bonus values negamax passes (search.cpp:149, 155) at depths 30 and 64
HistoryBonuses ==
    {Min(2000, 100 + d * d) : d \in {30, 64}} \cup {Min(4000, 200 + d * d) : d \in {64}}

\* moves of two cells of the table
HistoryMoves == {LegalMoves(START)[1], LegalMoves(START)[2]}

InitHistory ==
    /\ InitDriver(1, 0)
    /\ unit = [kind |-> "history", h |-> HistoryClear, last |-> [op |-> "none"]]

\* history_.bonus(m, v)
HistBonus(m, v) ==
    /\ unit.kind = "history"
    /\ unit' = [unit EXCEPT !.h = HistoryBonus(unit.h, m, v),
                            !.last = [op |-> "bonus", m |-> m, v |-> v, before |-> unit.h]]
    /\ UNCHANGED driver

NextHistory == \E m \in HistoryMoves : \E v \in HistoryBonuses : HistBonus(m, v)

SpecHistory == InitHistory /\ [][NextHistory]_vars

\* C17: after any sequence of History::bonus calls with the bonus values of
\* the search, every entry of the table is in [-30000, 30000]; no entry has
\* wrapped around 16 bits: the cell of the last call holds its old value plus
\* the bonus, cut to that range, and no other cell has changed.
C17_HistoryInRange ==
    unit.kind = "history" =>
        /\ \A c \in HistCells : unit.h[c] >= -30000 /\ unit.h[c] <= 30000
        /\ unit.last.op = "bonus" =>
              LET c == <<MoveFrom(unit.last.m), MoveTo(unit.last.m)>>
                  sum == unit.last.before[c] + unit.last.v
              IN /\ unit.h[c] = (IF sum > 30000 THEN 30000
                                 ELSE IF sum < -30000 THEN -30000 ELSE sum)
                 /\ \A o \in HistCells : o # c => unit.h[o] = unit.last.before[o]

\* C17 witness: a bonus of 4000 on a cell that held 28000 left 30000
C17_Witness ==
    /\ unit.kind = "history" /\ unit.last.op = "bonus"
    /\ unit.last.v = 4000
    /\ unit.last.before[<<MoveFrom(unit.last.m), MoveTo(unit.last.m)>>] = 28000
    /\ unit.h[<<MoveFrom(unit.last.m), MoveTo(unit.last.m)>>] = 30000

(***************************************************************************)
(* move_order.hpp on its own: one Killers object.                          *)
(***************************************************************************)
\* the moves pushed (three moves of the game graph) and their plies
KillerMoves == {LegalMoves(START)[1], LegalMoves(START)[2], LegalMoves(PA)[1]}
KillerPushPlies == {0, 1}

InitKillers ==
    /\ InitDriver(1, 0)
    /\ unit = [kind |-> "killers", k |-> KillersClear, last |-> [op |-> "none"]]

\* killers_.push(ply, m)
KillPush(ply, m) ==
    /\ unit.kind = "killers"
    /\ unit' = [unit EXCEPT !.k = KillersPush(unit.k, ply, m),
                            !.last = [op |-> "push", ply |-> ply, m |-> m, before |-> unit.k]]
    /\ UNCHANGED driver

NextKillers == \E ply \in KillerPushPlies : \E m \in KillerMoves : KillPush(ply, m)

SpecKillers == InitKillers /\ [][NextKillers]_vars

\* C18: the two killer slots of a ply never hold the same move unless both
\* are empty; pushing a move that is in either slot changes nothing; pushing
\* a new move puts it in slot 1, moves the old slot 1 to slot 2 and drops the
\* old slot 2; the slots of every other ply are untouched.
C18_KillerSlots ==
    unit.kind = "killers" =>
        /\ \A p \in KillerPlies : unit.k.m1[p] = unit.k.m2[p] => unit.k.m1[p] = NO_MOVE
        /\ unit.last.op = "push" =>
              LET old == unit.last.before
                  p == unit.last.ply
                  m == unit.last.m
              IN /\ (m = old.m1[p] \/ m = old.m2[p]) => unit.k = old
                 /\ (m # old.m1[p] /\ m # old.m2[p]) =>
                        unit.k.m1[p] = m /\ unit.k.m2[p] = old.m1[p]
                 /\ \A q \in KillerPlies : q # p =>
                        unit.k.m1[q] = old.m1[q] /\ unit.k.m2[q] = old.m2[q]

\* C18 witness: a third move pushed on a ply with two killers dropped the
\* old slot 2
C18_Witness ==
    /\ unit.kind = "killers" /\ unit.last.op = "push"
    /\ unit.last.before.m1[unit.last.ply] # NO_MOVE
    /\ unit.last.before.m2[unit.last.ply] # NO_MOVE
    /\ ~IsKiller(unit.last.before, unit.last.ply, unit.last.m)
    /\ unit.k.m1[unit.last.ply] = unit.last.m
    /\ unit.k.m2[unit.last.ply] = unit.last.before.m1[unit.last.ply]
    /\ ~IsKiller(unit.k, unit.last.ply, unit.last.before.m2[unit.last.ply])

(***************************************************************************)
(* The move loop of negamax on its own: the call made for one move.        *)
(***************************************************************************)
\* the frame of a negamax node on board b with the given depth (after the
\* check extension), at its idx-th move: movesSearched is idx - 1, the moves
\* are in the order of orderMoves with no table move, killers or history
LmrFrame(b, depth, idx) ==
    [Frame("N", b, depth, -INF, INF, -INF, 0,
           OrderMoves(b, LegalMoves(b), NO_MOVE, KillersClear, HistoryClear, 0), -INF)
     EXCEPT !.idx = idx, !.searched = idx - 1]

InitLMR ==
    /\ InitDriver(1, 0)
    /\ \E b \in Positions : \E depth \in 1..(DepthCap + 1) :
       \E idx \in 1..Len(LegalMoves(b)) :
          unit = [kind |-> "lmr", f |-> LmrFrame(b, depth, idx), called |-> FALSE,
                  call |-> NoCall]

\* b.makeMove(m), the reduction test and the recursive call (search.cpp:132-138)
LmrCall ==
    /\ unit.kind = "lmr" /\ ~unit.called
    /\ unit' = [unit EXCEPT !.called = TRUE, !.call = ChildCall(unit.f)]
    /\ UNCHANGED driver

NextLMR == LmrCall

SpecLMR == InitLMR /\ [][NextLMR]_vars

\* C20: in negamax, a move that is neither a capture nor a promotion in the
\* position where it is played, searched after at least four earlier moves
\* at a node where depth - 1 > 0, is searched at depth - 2; captures,
\* promotions and the first four moves are searched at depth - 1.
C20_LateMoveReduction ==
    (unit.kind = "lmr" /\ unit.called) =>
        LET f == unit.f
            m == f.ml[f.idx]
            late == /\ ~IsCapture(f.b, m) /\ MoveType(m) # PROMOTION
                    /\ f.searched >= 4 /\ f.depth - 1 > 0
        IN unit.call.depth = IF late THEN f.depth - 2 ELSE f.depth - 1

(***************************************************************************)
(* eval.cpp on its own: eval::evaluate on boards given square by square.   *)
(*                                                                         *)
(* A board is [white |-> the side to move is white, pcs |-> the set of its *)
(* pieces [sq, w, pt]]: square 0 is a1, 7 is h1, 56 is a8.                 *)
(***************************************************************************)
\* the piece-square tables, pawn to king, in the order of the initializers
MG_PST ==
    <<<<0, 0, 0, 0, 0, 0, 0, 0, 98, 134, 61, 95, 68, 126, 34, -11,
        -6, 7, 26, 31, 65, 56, 25, -20, -14, 13, 6, 21, 23, 12, 17, -23,
        -27, -2, -5, 12, 17, 6, 10, -25, -26, -4, -4, -10, 3, 3, 33, -12,
        -35, -1, -20, -23, -15, 24, 38, -22, 0, 0, 0, 0, 0, 0, 0, 0>>,
      <<-167, -89, -34, -49, 61, -97, -15, -107, -73, -41, 72, 36, 23, 62, 7, -17,
        -47, 60, 37, 65, 84, 129, 73, 44, -9, 17, 19, 53, 37, 69, 18, 22,
        -13, 4, 16, 13, 28, 19, 21, -8, -23, -9, 12, 10, 19, 17, 25, -16,
        -29, -53, -12, -3, -1, 18, -14, -19, -105, -21, -58, -33, -17, -28, -19, -23>>,
      <<-29, 4, -82, -37, -25, -42, 7, -8, -26, 16, -18, -13, 30, 59, 18, -47,
        -16, 37, 43, 40, 35, 50, 37, -2, -4, 5, 19, 50, 37, 37, 7, -2,
        -6, 13, 13, 26, 34, 12, 10, 4, 0, 15, 15, 15, 14, 27, 18, 10,
        4, 15, 16, 0, 7, 21, 33, 1, -33, -3, -14, -21, -13, -12, -39, -21>>,
      <<32, 42, 32, 51, 63, 9, 31, 43, 27, 32, 58, 62, 80, 67, 26, 44,
        -5, 19, 26, 36, 17, 45, 61, 16, -24, -11, 7, 26, 24, 35, -8, -20,
        -36, -26, -12, -1, 9, -7, 6, -23, -45, -25, -16, -17, 3, 0, -5, -33,
        -44, -16, -20, -9, -1, 11, -6, -71, -19, -13, 1, 17, 16, 7, -37, -26>>,
      <<-28, 0, 29, 12, 59, 44, 43, 45, -24, -39, -5, 1, -16, 57, 28, 54,
        -13, -17, 7, 8, 29, 56, 47, 57, -27, -27, -16, -16, -1, 17, -2, 1,
        -9, -26, -9, -10, -2, -4, 3, -3, -14, 2, -11, -2, -5, 2, 14, 5,
        -35, -8, 11, 2, 8, 15, -3, 1, -1, -18, -9, 10, -15, -25, -31, -50>>,
      <<-65, 23, 16, -15, -56, -34, 2, 13, 29, -1, -20, -7, -8, -4, -38, -29,
        -9, 24, 2, -16, -20, 6, 22, -22, -17, -20, -12, -27, -30, -25, -14, -36,
        -49, -1, -27, -39, -46, -44, -33, -51, -14, -14, -22, -46, -44, -30, -15, -27,
        1, 7, -8, -64, -43, -16, 9, 8, -15, 36, 12, -54, 8, -28, 24, 14>>>>

EG_PST ==
    <<<<0, 0, 0, 0, 0, 0, 0, 0, 178, 173, 158, 134, 147, 132, 165, 187,
        94, 100, 85, 67, 56, 53, 82, 84, 32, 24, 13, 5, -2, 4, 17, 17,
        13, 9, -3, -7, -7, -8, 3, -1, 4, 7, -6, 1, 0, -5, -1, -8,
        13, 8, 8, 10, 13, 0, 2, -7, 0, 0, 0, 0, 0, 0, 0, 0>>,
      <<-58, -38, -13, -28, -31, -27, -63, -99, -25, -8, -25, -2, -9, -25, -24, -52,
        -24, -20, 10, 9, -1, -9, -19, -41, -17, 3, 22, 22, 22, 11, 8, -18,
        -18, -6, 16, 25, 16, 17, 4, -18, -23, -3, -1, 15, 10, -3, -20, -22,
        -42, -20, -10, -5, -2, -20, -23, -44, -29, -51, -23, -15, -22, -18, -50, -64>>,
      <<-14, -21, -11, -8, -7, -9, -17, -24, -8, -4, 7, -12, -3, -13, -4, -14,
        2, -8, 0, -1, -2, 6, 0, 4, -3, 9, 12, 9, 14, 10, 3, 2,
        -6, 3, 13, 19, 7, 10, -3, -9, -12, -3, 8, 10, 13, 3, -7, -15,
        -14, -18, -7, -1, 4, -9, -15, -27, -23, -9, -23, -5, -9, -16, -5, -17>>,
      <<13, 10, 18, 15, 12, 12, 8, 5, 11, 13, 13, 11, -3, 3, 8, 3,
        7, 7, 7, 5, 4, -3, -5, -3, 4, 3, 13, 1, 2, 1, -1, 2,
        3, 5, 8, 4, -5, -6, -8, -11, -4, 0, -5, -1, -7, -12, -8, -16,
        -6, -6, 0, 2, -9, -9, -11, -3, -9, 2, 3, -1, -5, -13, 4, -20>>,
      <<-9, 22, 22, 27, 27, 19, 10, 20, -17, 20, 32, 41, 58, 25, 30, 0,
        -20, 6, 9, 49, 47, 35, 19, 9, 3, 22, 24, 45, 57, 40, 57, 36,
        -18, 28, 19, 47, 31, 34, 39, 23, -16, -27, 15, 6, 9, 17, 10, 5,
        -22, -23, -30, -16, -16, -23, -36, -32, -33, -28, -22, -43, -5, -32, -20, -41>>,
      <<-74, -35, -18, -18, -11, 15, 4, -17, -12, 17, 14, 17, 17, 38, 23, 11,
        10, 17, 23, 15, 20, 45, 44, 13, -8, 22, 24, 27, 26, 33, 26, 3,
        -18, -4, 21, 24, 27, 23, 9, -11, -19, -3, 11, 21, 23, 16, 7, -9,
        -27, -11, 4, 13, 14, 4, -5, -17, -53, -34, -21, -11, -28, -14, -24, -43>>>>

\* the sum of f over the set S
RECURSIVE Sum(_, _)
Sum(f, S) ==
    IF S = {} THEN 0
    ELSE LET x == CHOOSE y \in S : TRUE
         IN f[x] + Sum(f, S \ {x})

\* the squares from (f, r) in direction (df, dr), up to and including the
\* first occupied one
RECURSIVE RayFrom(_, _, _, _, _)
RayFrom(f, r, df, dr, occ) ==
    LET nf == f + df
        nr == r + dr
    IN IF nf < 0 \/ nf > 7 \/ nr < 0 \/ nr > 7 THEN {}
       ELSE IF (nr * 8 + nf) \in occ THEN {nr * 8 + nf}
       ELSE {nr * 8 + nf} \cup RayFrom(nf, nr, df, dr, occ)

\* attacks::knight, attacks::bishop, attacks::rook, attacks::queen
Attacks(pt, sq, occ) ==
    LET f == FileOf(sq)
        r == RankOf(sq)
        diag == {<<1, 1>>, <<1, -1>>, <<-1, 1>>, <<-1, -1>>}
        orth == {<<1, 0>>, <<-1, 0>>, <<0, 1>>, <<0, -1>>}
        jumps == {<<1, 2>>, <<2, 1>>, <<2, -1>>, <<1, -2>>,
                  <<-1, -2>>, <<-2, -1>>, <<-2, 1>>, <<-1, 2>>}
        dirs == IF pt = BISHOP THEN diag ELSE IF pt = ROOK THEN orth ELSE diag \cup orth
    IN IF pt = KNIGHT
       THEN {(r + j[2]) * 8 + f + j[1] :
                j \in {k \in jumps : f + k[1] \in 0..7 /\ r + k[2] \in 0..7}}
       ELSE UNION {RayFrom(f, r, d[1], d[2], occ) : d \in dirs}

\* mirror(idx) = idx ^ 56
mirror(idx) == (7 - RankOf(idx)) * 8 + FileOf(idx)

\* the squares of files f-1, f, f+1 with an index of at least sq + 8:
\* (~0ULL << (sq + 8)) & mask
passed_span_white(sq, f) ==
    {s \in 0..63 : s >= sq + 8 /\ FileOf(s) \in {f - 1, f, f + 1}}

\* the squares of files f-1, f, f+1 with an index below sq:
\* ((1ULL << sq) - 1) & mask
passed_span_black(sq, f) ==
    {s \in 0..63 : s < sq /\ FileOf(s) \in {f - 1, f, f + 1}}

\* the squares of the pawns of colour w (b.pieces(PieceType::PAWN, colour))
PawnsOf(b, w) == {p.sq : p \in {q \in b.pcs : q.pt = PAWN /\ q.w = w}}

\* the pawns of colour w that pass the test of the passed-pawn loops
\* (eval.cpp:261-281) and so receive PASS_MG / PASS_EG
PassedPawns(b, w) ==
    IF w
    THEN {sq \in PawnsOf(b, TRUE) :
             PawnsOf(b, FALSE) \cap passed_span_white(sq, FileOf(sq)) = {}}
    ELSE {sq \in PawnsOf(b, FALSE) :
             PawnsOf(b, TRUE) \cap passed_span_black(sq, FileOf(sq)) = {}}

\* eval::evaluate(b) on a cache miss (the cache returns the value stored by
\* an earlier call for the same key), up to the taper: mgScore, egScore and
\* phase as they are at eval.cpp:437
EvalTerms(b) ==
    LET MG_VALUE == <<82, 337, 365, 477, 1025, 0>>
        EG_VALUE == <<94, 281, 297, 512, 936, 0>>
        PASS_MG == <<0, 5, 10, 20, 35, 60, 100, 0>>
        PASS_EG == <<0, 10, 20, 40, 60, 100, 160, 0>>
        Colours == {TRUE, FALSE}
        sign(w) == IF w THEN 1 ELSE -1
        Pieces(pt, w) == {p.sq : p \in {q \in b.pcs : q.pt = pt /\ q.w = w}}
        Count(pt) == Cardinality(Pieces(pt, TRUE)) + Cardinality(Pieces(pt, FALSE))
        occ == {p.sq : p \in b.pcs}
        Us(w) == {p.sq : p \in {q \in b.pcs : q.w = w}}
        phase == Min(24, Count(KNIGHT) + Count(BISHOP) + 2 * Count(ROOK) + 4 * Count(QUEEN))
        idx(p) == IF p.w THEN p.sq ELSE mirror(p.sq)
        \* material and piece-square tables
        matMg == Sum([p \in b.pcs |->
                        sign(p.w) * (MG_VALUE[p.pt + 1] + MG_PST[p.pt + 1][idx(p) + 1])], b.pcs)
        matEg == Sum([p \in b.pcs |->
                        sign(p.w) * (EG_VALUE[p.pt + 1] + EG_PST[p.pt + 1][idx(p) + 1])], b.pcs)
        \* bishop pair
        pair(w) == IF Cardinality(Pieces(BISHOP, w)) >= 2 THEN 1 ELSE 0
        \* doubled and isolated pawns
        OnFile(S, f) == {s \in S : FileOf(s) = f}
        Pawns(w) == Pieces(PAWN, w)
        doubled(w) == Sum([f \in 0..7 |->
                             IF Cardinality(OnFile(Pawns(w), f)) > 1
                             THEN Cardinality(OnFile(Pawns(w), f)) - 1 ELSE 0], 0..7)
        iso(w) == Sum([f \in 0..7 |->
                         IF /\ OnFile(Pawns(w), f) # {}
                            /\ OnFile(Pawns(w), f - 1) \cup OnFile(Pawns(w), f + 1) = {}
                         THEN Cardinality(OnFile(Pawns(w), f)) ELSE 0], 0..7)
        \* passed pawns
        passedW == PassedPawns(b, TRUE)
        passedB == PassedPawns(b, FALSE)
        passMg == Sum([sq \in passedW |-> PASS_MG[RankOf(sq) + 1]], passedW)
                  - Sum([sq \in passedB |-> PASS_MG[(7 - RankOf(sq)) + 1]], passedB)
        passEg == Sum([sq \in passedW |-> PASS_EG[RankOf(sq) + 1]], passedW)
                  - Sum([sq \in passedB |-> PASS_EG[(7 - RankOf(sq)) + 1]], passedB)
        \* knights on the rim
        rim(w) == Cardinality({sq \in Pieces(KNIGHT, w) :
                                  FileOf(sq) \in {0, 7} \/ RankOf(sq) \in {0, 7}})
        \* rooks on open and semi-open files
        rookOpen(w) == Cardinality({sq \in Pieces(ROOK, w) :
                           /\ OnFile(Pawns(w), FileOf(sq)) = {}
                           /\ OnFile(Pawns(~w), FileOf(sq)) = {}})
        rookSemi(w) == Cardinality({sq \in Pieces(ROOK, w) :
                           /\ OnFile(Pawns(w), FileOf(sq)) = {}
                           /\ OnFile(Pawns(~w), FileOf(sq)) # {}})
        \* connected rooks: the two rooks of lowest square index
        lowest(S) == CHOOSE s \in S : \A o \in S : s <= o
        connected(w) ==
            IF Cardinality(Pieces(ROOK, w)) < 2 THEN 0
            ELSE LET sq1 == lowest(Pieces(ROOK, w))
                     sq2 == lowest(Pieces(ROOK, w) \ {sq1})
                 IN IF sq2 \in Attacks(ROOK, sq1, occ) THEN 1 ELSE 0
        \* king pawn shield: the penalty of one file
        kingSq(w) == CHOOSE s \in Pieces(KING, w) : TRUE
        shield(w, f, mgPart) ==
            LET rank == RankOf(kingSq(w))
                r1 == rank + sign(w)
                r2 == rank + 2 * sign(w)
                shield1 == r1 >= 0 /\ r1 < 8 /\ (r1 * 8 + f) \in Pawns(w)
                shield2 == ~shield1 /\ r2 >= 0 /\ r2 < 8 /\ (r2 * 8 + f) \in Pawns(w)
            IN IF f < 0 \/ f > 7 THEN (IF mgPart THEN 15 ELSE 5)
               ELSE IF shield1 THEN 0
               ELSE IF shield2 THEN (IF mgPart THEN 8 ELSE 3)
               ELSE (IF mgPart THEN 15 ELSE 5)
        king_shield(w, mgPart) ==
            Sum([df \in -1..1 |-> shield(w, FileOf(kingSq(w)) + df, mgPart)], -1..1)
        \* mobility
        movers(w) == {p \in b.pcs : p.w = w /\ p.pt \in {KNIGHT, BISHOP, ROOK, QUEEN}}
        mob(w) == Sum([p \in movers(w) |->
                         Cardinality(Attacks(p.pt, p.sq, occ) \ Us(w))], movers(w))
        mg == matMg + 30 * (pair(TRUE) - pair(FALSE))
              - 10 * doubled(TRUE) + 10 * doubled(FALSE) - 8 * iso(TRUE) + 8 * iso(FALSE)
              + passMg - 15 * rim(TRUE) + 15 * rim(FALSE)
              + 15 * (rookOpen(TRUE) - rookOpen(FALSE)) + 10 * (rookSemi(TRUE) - rookSemi(FALSE))
              + 10 * (connected(TRUE) - connected(FALSE))
              - king_shield(TRUE, TRUE) + king_shield(FALSE, TRUE)
              + 4 * (mob(TRUE) - mob(FALSE))
        eg == matEg + 35 * (pair(TRUE) - pair(FALSE))
              - 8 * doubled(TRUE) + 8 * doubled(FALSE) - 6 * iso(TRUE) + 6 * iso(FALSE)
              + passEg - 10 * rim(TRUE) + 10 * rim(FALSE)
              + 10 * (rookOpen(TRUE) - rookOpen(FALSE)) + 5 * (rookSemi(TRUE) - rookSemi(FALSE))
              + 10 * (connected(TRUE) - connected(FALSE))
              - king_shield(TRUE, FALSE) + king_shield(FALSE, FALSE)
              + 2 * (mob(TRUE) - mob(FALSE))
        tempo == IF b.white THEN 8 ELSE -8
        mgScore == mg + tempo
        egScore == eg + tempo
    IN [mgScore |-> mgScore, egScore |-> egScore, phase |-> phase]

\* "int score = (mgScore * phase + egScore * (24 - phase)) / 24" (eval.cpp:437)
Taper(mgScore, egScore, phase) == CDiv(mgScore * phase + egScore * (24 - phase), 24)

\* eval::evaluate: the tapered score, returned from the side to move
\* (eval.cpp:437-445)
evaluate(b) ==
    ByValue({IF b.white THEN Taper(t.mgScore, t.egScore, t.phase)
             ELSE -Taper(t.mgScore, t.egScore, t.phase) : t \in {EvalTerms(b)}})

\* the board with the colours of all pieces and of the side to move swapped
\* and the ranks mirrored
MirrorBoard(b) ==
    [white |-> ~b.white,
     pcs |-> {[sq |-> mirror(p.sq), w |-> ~p.w, pt |-> p.pt] : p \in b.pcs}]

\* the boards evaluated: two king placements, white pawns, black pawns and
\* further pieces from a few groups, either side to move
EvalBoards ==
    LET P(sq, w, pt) == [sq |-> sq, w |-> w, pt |-> pt]
        kings == {{P(4, TRUE, KING), P(60, FALSE, KING)},
                  {P(6, TRUE, KING), P(58, FALSE, KING)}}
        wpawns == {{}, {P(28, TRUE, PAWN)}, {P(20, TRUE, PAWN), P(28, TRUE, PAWN)},
                   {P(13, TRUE, PAWN), P(14, TRUE, PAWN), P(15, TRUE, PAWN)},
                   {P(27, TRUE, PAWN)}}
        bpawns == {{}, {P(35, FALSE, PAWN)}, {P(36, FALSE, PAWN)},
                   {P(53, FALSE, PAWN), P(46, FALSE, PAWN)}}
        others == {{}, {P(16, TRUE, KNIGHT), P(45, FALSE, KNIGHT)},
                   {P(0, TRUE, ROOK), P(3, TRUE, ROOK), P(49, FALSE, BISHOP)},
                   {P(2, TRUE, BISHOP), P(5, TRUE, BISHOP), P(59, FALSE, QUEEN)}}
    IN {[white |-> w, pcs |-> k \cup wp \cup bp \cup o] :
           w \in BOOLEAN, k \in kings, wp \in wpawns, bp \in bpawns, o \in others}

InitEval ==
    /\ InitDriver(1, 0)
    /\ \E b \in EvalBoards :
          unit = [kind |-> "eval", b |-> b, done |-> FALSE, val |-> 0, mval |-> 0]

\* evaluate(b) and evaluate(mirror(b))
EvalCall ==
    /\ unit.kind = "eval" /\ ~unit.done
    /\ unit' = [unit EXCEPT !.done = TRUE, !.val = evaluate(unit.b),
                            !.mval = evaluate(MirrorBoard(unit.b))]
    /\ UNCHANGED driver

NextEval == EvalCall

SpecEval == InitEval /\ [][NextEval]_vars

\* C19: for every position pos, evaluate(pos) = -evaluate(mirror(pos)), where
\* mirror swaps the colours of all pieces and of the side to move and
\* mirrors the ranks.
C19_EvalSymmetry ==
    (unit.kind = "eval" /\ unit.done) => unit.val = -unit.mval

\* ---------------------------------------------------------------------------
\* Transposition-table entries against the negamax value (search.cpp:94-172)
\* ---------------------------------------------------------------------------

\* The value of the quiescence search of b without window and without
\* cancellation, relative to b (a mate k plies below b is MATE - k).
RECURSIVE QValue(_)
QValue(b) ==
    LET ml == LegalMoves(b)
        caps == CapturesOf(b, ml)
        ms == IF InCheck(b) THEN ml ELSE caps
        vals == {-from_tt(QValue(MakeMove(b, ms[i])), 1) : i \in 1..Len(ms)}
        best == CHOOSE v \in vals : \A w \in vals : w <= v
    IN IF InCheck(b)
       THEN (IF ml = <<>> THEN -MATE ELSE best)
       ELSE (IF caps = <<>> THEN Evaluate(b) ELSE Max(Evaluate(b), best))

\* The negamax value of b, relative to b: ValueAt takes the depth the moves
\* of b are searched with (the depth an entry is stored with, after the check
\* extension), NegamaxValue the depth negamax is called with.
RECURSIVE NegamaxValue(_, _)
ValueAt(b, depth) ==
    LET ml == LegalMoves(b)
        vals == {-from_tt(NegamaxValue(MakeMove(b, ml[i]), depth - 1), 1) :
                    i \in 1..Len(ml)}
    IN CHOOSE v \in vals : \A w \in vals : w <= v

NegamaxValue(b, depth) ==
    IF depth <= 0 THEN QValue(b)
    ELSE IF LegalMoves(b) = <<>> THEN (IF InCheck(b) THEN -MATE ELSE 0)
    ELSE ValueAt(b, IF InCheck(b) THEN depth + 1 ELSE depth)

EntrySound(e) ==
    \E v \in {ValueAt(e.key, e.depth)} :
        /\ e.flag = EXACT => e.score = v
        /\ e.flag = LOWER => e.score <= v
        /\ e.flag = UPPER => e.score >= v

\* C21: in a search that was never cancelled (the first go of the run, no
\* time_up() observed at a node) and with one key per position, every entry
\* negamax has stored is sound: an EXACT entry holds the negamax value of its
\* position at the stored depth, a LOWER entry a score at most that value, an
\* UPPER entry a score at least that value.
C21_TTEntriesSound ==
    \A i \in 1..nsearchers :
        (goCount <= 1 /\ sr[i].obs = -1) =>
            \A x \in 0..(TTSize - 1) :
                sr[i].tt.table[x].depth >= 1 => EntrySound(sr[i].tt.table[x])

\* ---------------------------------------------------------------------------
\* The node counter and the polls of timeUp() (search.cpp:42, 95)
\* ---------------------------------------------------------------------------

\* a step of searcher i in which nodes were visited while the stop flag was
\* set and no poll had observed it yet
BlindVisits(i) ==
    /\ stopFlag_
    /\ sr[i].obs = -1
    /\ sr'[i].nodes > sr[i].nodes

\* C22: negamax and qsearch count on one counter, and fewer than
\* 2^NegamaxPollBits consecutive node visits pass without one that evaluates
\* timeUp(); nodes visited while the stop flag is set and not yet observed are
\* either observed at the first of them or all belong to one such run, so at
\* most 2^NegamaxPollBits nodes are visited between the setting of the flag
\* and its first observation.
C22_PollEveryRun ==
    /\ [](\A i \in Searchers : sr[i].unpolled < 2 ^ NegamaxPollBits)
    /\ [][\A i \in Searchers :
            BlindVisits(i) =>
                \/ sr'[i].obs = sr[i].nodes + 1
                \/ /\ sr'[i].obs = -1
                   /\ sr'[i].unpolled = sr[i].unpolled + sr'[i].nodes - sr[i].nodes]_vars

\* the stop flag was set during a search and observed by a qsearch or negamax
\* poll after a full run of visits without a poll
C22_Witness ==
    /\ stopFlag_
    /\ sr[1].obs > 2 ^ NegamaxPollBits
    /\ sr[1].unpolled = 0

\* ---------------------------------------------------------------------------
\* The info lines of go() (search.cpp:188-252)
\* ---------------------------------------------------------------------------

\* C23: go() writes one info line per completed iteration and none for an
\* incomplete one; the depths of the lines of one go are 1, 2, 3, ... without
\* a gap, none above limits.depth when that is positive (above the cap of the
\* loop otherwise), and the score of the last line is the returned bestScore.
C23_InfoLines ==
    \A i \in Searchers :
        LET inf == sr[i].infos
        IN /\ Len(inf) = sr[i].good.n
           /\ \A k \in 1..Len(inf) : inf[k].depth = k
           /\ Len(inf) <= (IF sr[i].lim.depth > 0 THEN sr[i].lim.depth ELSE DepthCap)
           /\ (GoReturned(i) /\ inf # <<>>) =>
                  results[i].bestScore = inf[Len(inf)].score

\* C23 witness: a search without depth limit has returned with the lines of
\* the depths 1 and 2 and a third iteration that was cut off with another score
C23_Witness ==
    /\ GoReturned(1)
    /\ sr[1].lim.depth = 0
    /\ Len(sr[1].infos) = 2
    /\ sr[1].infos[2].depth = 2
    /\ sr[1].aborted.n = 1
    /\ sr[1].aborted.score # results[1].bestScore

\* ---------------------------------------------------------------------------
\* A mate score through the table at another ply (utils.hpp:15-24, tt.hpp:37-47)
\* ---------------------------------------------------------------------------

\* mate distances from the root: the short ones and the longest ones the
\* claim covers
MateDists == (0..(2 * MaxPly)) \cup ((MATE_IN_MAX - 1 - MaxPly)..(MATE_IN_MAX - 1))

\* a mate n plies from the root, for the side to move (sign 1) or against it
\* (sign -1), found at a node at ply p1 <= n and read back at ply p2
InitMate ==
    /\ InitDriver(1, 0)
    /\ \E n \in MateDists : \E p1 \in 0..MaxPly : \E p2 \in 0..(2 * MaxPly) :
       \E sign \in {-1, 1} :
          /\ p1 <= n
          /\ n - p1 + p2 < MATE_IN_MAX
          /\ unit = [kind |-> "mate", n |-> n, p1 |-> p1, p2 |-> p2, sign |-> sign,
                     step |-> "start", tt |-> NewTT, back |-> 0]

\* tt_.store(key, move, depth, to_tt(bestScore, ply), flag) at ply p1
\* (search.cpp:170)
MateStore ==
    /\ unit.kind = "mate" /\ unit.step = "start"
    /\ unit' = [unit EXCEPT
                  !.step = "stored",
                  !.tt = Store(unit.tt, 1, NO_MOVE, 1,
                               to_tt(unit.sign * (MATE - unit.n), unit.p1), EXACT)]
    /\ UNCHANGED driver

\* ttScore = from_tt(e.score, ply) at ply p2 (search.cpp:102-104)
MateRead ==
    /\ unit.kind = "mate" /\ unit.step = "stored"
    /\ Probe(unit.tt, 1).hit
    /\ unit' = [unit EXCEPT !.step = "back",
                            !.back = from_tt(Probe(unit.tt, 1).e.score, unit.p2)]
    /\ UNCHANGED driver

NextMate == MateStore \/ MateRead

SpecMate == InitMate /\ [][NextMate]_vars

\* C24: a mate score found n plies from the root, stored at ply p1 <= n and
\* read back at ply p2, is the score of a mate n - p1 + p2 plies from the
\* root, for both signs, while the distances are below MATE_IN_MAX.
C24_MateAcrossPlies ==
    (unit.kind = "mate" /\ unit.step = "back") =>
        unit.back = unit.sign * (MATE - (unit.n - unit.p1 + unit.p2))

\* C24 witness: a mate against the side to move, stored at ply 2 and read
\* back at ply 5, three plies further from the root
C24_Witness ==
    /\ unit.kind = "mate" /\ unit.step = "back"
    /\ unit.sign = -1 /\ unit.n = 3 /\ unit.p1 = 2 /\ unit.p2 = 5
    /\ unit.back = -MATE + 6

\* ---------------------------------------------------------------------------
\* Ordering an ordered move list again (search.cpp:29-39)
\* ---------------------------------------------------------------------------

\* the move lists of a position with eight and of one with twenty legal
\* moves, no TT move or the first or the last legal move as TT move, killers
\* and history cleared or after a cutoff by the second or the third legal move
InitOrder ==
    /\ InitDriver(1, 0)
    /\ \E b \in {WIDE, OPEN} :
       \E t \in {0, 1, Len(LegalMoves(b))} :
       \E kc \in 0..2 : \E hc \in 0..2 :
          unit = [kind |-> "order", b |-> b,
                  ttMove |-> IF t = 0 THEN NO_MOVE ELSE LegalMoves(b)[t],
                  kill |-> IF kc = 0 THEN KillersClear
                           ELSE KillersPush(KillersClear, 0, LegalMoves(b)[kc + 1]),
                  hist |-> IF hc = 0 THEN HistoryClear
                           ELSE HistoryBonus(HistoryClear, LegalMoves(b)[hc + 1], 101),
                  step |-> "start", once |-> <<>>, twice |-> <<>>]

\* orderMoves(b, ml, ttMove, ply) on the list of movegen::legalmoves
OrderOnce ==
    /\ unit.kind = "order" /\ unit.step = "start"
    /\ unit' = [unit EXCEPT
                  !.step = "once",
                  !.once = OrderMoves(unit.b, LegalMoves(unit.b), unit.ttMove,
                                      unit.kill, unit.hist, 0)]
    /\ UNCHANGED driver

\* orderMoves on the list it has ordered
OrderTwice ==
    /\ unit.kind = "order" /\ unit.step = "once"
    /\ unit' = [unit EXCEPT
                  !.step = "twice",
                  !.twice = OrderMoves(unit.b, unit.once, unit.ttMove,
                                       unit.kill, unit.hist, 0)]
    /\ UNCHANGED driver

NextOrder == OrderOnce \/ OrderTwice

SpecOrder == InitOrder /\ [][NextOrder]_vars

\* C25: ordering a move list that is already ordered, with the same position,
\* TT move, killers and history, gives the same list, also where moves have
\* equal ordering scores.
C25_OrderIdempotent ==
    (unit.kind = "order" /\ unit.step = "twice") => unit.twice = unit.once

\* ---------------------------------------------------------------------------
\* The passed-pawn test (eval.cpp:241-281)
\* ---------------------------------------------------------------------------

\* the kings on e1 and e8, a white pawn on d4 or a4 and a black pawn on any
\* other square of the ranks 2 to 7, either side to move
PassedBoards ==
    {[white |-> w,
      pcs |-> {[sq |-> 4, w |-> TRUE, pt |-> KING], [sq |-> 60, w |-> FALSE, pt |-> KING],
               [sq |-> wp, w |-> TRUE, pt |-> PAWN], [sq |-> bp, w |-> FALSE, pt |-> PAWN]}] :
        w \in BOOLEAN, wp \in {24, 27}, bp \in (8..55) \ {24, 27}}

InitPassed ==
    /\ InitDriver(1, 0)
    /\ \E b \in PassedBoards :
          unit = [kind |-> "passed", b |-> b, done |-> FALSE, val |-> 0,
                  bonusW |-> {}, bonusB |-> {}]

\* evaluate(b), with the pawns that received the passed-pawn bonus
PassedCall ==
    /\ unit.kind = "passed" /\ ~unit.done
    /\ unit' = [unit EXCEPT !.done = TRUE, !.val = evaluate(unit.b),
                            !.bonusW = PassedPawns(unit.b, TRUE),
                            !.bonusB = PassedPawns(unit.b, FALSE)]
    /\ UNCHANGED driver

NextPassed == PassedCall

SpecPassed == InitPassed /\ [][NextPassed]_vars

\* an enemy pawn stands on the file of the pawn on sq or on a file next to
\* it, on a rank strictly ahead of it from the side of colour w
EnemyAhead(b, sq, w) ==
    \E e \in PawnsOf(b, ~w) :
        /\ FileOf(e) \in {FileOf(sq) - 1, FileOf(sq), FileOf(sq) + 1}
        /\ IF w THEN RankOf(e) > RankOf(sq) ELSE RankOf(e) < RankOf(sq)

\* C26: a pawn receives the passed-pawn bonus iff no enemy pawn stands on
\* its file or a file next to it on a square strictly ahead of it, for white
\* and for black alike; enemy pawns on its rank or behind it do not matter.
C26_PassedPawnTest ==
    (unit.kind = "passed" /\ unit.done) =>
        /\ \A sq \in PawnsOf(unit.b, TRUE) :
              sq \in unit.bonusW <=> ~EnemyAhead(unit.b, sq, TRUE)
        /\ \A sq \in PawnsOf(unit.b, FALSE) :
              sq \in unit.bonusB <=> ~EnemyAhead(unit.b, sq, FALSE)

\* ---------------------------------------------------------------------------
\* The taper of the final score (eval.cpp:187-199, 430-445)
\* ---------------------------------------------------------------------------

InitTaper ==
    /\ InitDriver(1, 0)
    /\ \E b \in EvalBoards :
          unit = [kind |-> "taper", b |-> b, done |-> FALSE, val |-> 0,
                  mg |-> 0, eg |-> 0, p |-> 0]

\* evaluate(b), with mgScore, egScore and phase as they are at eval.cpp:437
TaperCall ==
    /\ unit.kind = "taper" /\ ~unit.done
    /\ \E t \in {EvalTerms(unit.b)} :
          unit' = [unit EXCEPT !.done = TRUE, !.val = evaluate(unit.b),
                               !.mg = t.mgScore, !.eg = t.egScore, !.p = t.phase]
    /\ UNCHANGED driver

NextTaper == TaperCall

SpecTaper == InitTaper /\ [][NextTaper]_vars

\* the blend of three bucket scores with the weights p^2, 2p(24 - p) and
\* (24 - p)^2
ThreePhaseBlend(op, mg, eg, p) ==
    CDiv(op * p * p + mg * 2 * p * (24 - p) + eg * (24 - p) * (24 - p),
         p * p + 2 * p * (24 - p) + (24 - p) * (24 - p))

\* C27: the white-perspective score of evaluate is the three-phase blend
\* (op*p^2 + mg*2p(24-p) + eg*(24-p)^2) / (p^2 + 2p(24-p) + (24-p)^2) of its
\* bucket scores, p being the phase index, and the returned value is its
\* negation when black is to move. The code keeps two accumulators; op is
\* taken to be either of them.
C27_ThreePhaseBlend ==
    (unit.kind = "taper" /\ unit.done) =>
        \E op \in {unit.mg, unit.eg} :
            unit.val = (IF unit.b.white THEN 1 ELSE -1)
                       * ThreePhaseBlend(op, unit.mg, unit.eg, unit.p)

\* ---------------------------------------------------------------------------
\* TranspositionTable::resize and index (tt.hpp:21-27, 50)
\* ---------------------------------------------------------------------------

\* the bits of a MiB (2^MiBBits bytes in the place of 1024 * 1024), the
\* largest mb and sizeof(TTEntry): 8 + 2 + 2 + 1 + 1 + 1 bytes, padded to the
\* alignment of uint64_t
MiBBits == 5
MaxMb == 5
SizeofTTEntry == 16

RECURSIVE BitAnd(_, _)
BitAnd(a, b) ==
    IF a = 0 \/ b = 0 THEN 0
    ELSE (a % 2) * (b % 2) + 2 * BitAnd(a \div 2, b \div 2)

\* TranspositionTable::resize: the entry count n and mask_
resize(mb) ==
    LET bytes == mb * (2 ^ MiBBits)
        n == Max(1, bytes \div SizeofTTEntry)
    IN [n |-> n, mask |-> n - 1]

\* TranspositionTable::index
index(key, mask) == BitAnd(key, mask)

\* the keys: every bit pattern of the index bits of the largest table
ResizeKeys == 0..(2 * MaxMb * ((2 ^ MiBBits) \div SizeofTTEntry) - 1)

InitResize ==
    /\ InitDriver(1, 0)
    /\ \E mb \in 1..MaxMb :
          unit = [kind |-> "resize", mb |-> mb, step |-> "start", n |-> 0, mask |-> 0,
                  key |-> 0, idx |-> 0]

ResizeCall ==
    /\ unit.kind = "resize" /\ unit.step = "start"
    /\ unit' = [unit EXCEPT !.step = "sized", !.n = resize(unit.mb).n,
                            !.mask = resize(unit.mb).mask]
    /\ UNCHANGED driver

\* the index that probe and store compute for a key
IndexCall ==
    /\ unit.kind = "resize" /\ unit.step = "sized"
    /\ \E key \in ResizeKeys :
          unit' = [unit EXCEPT !.step = "indexed", !.key = key,
                               !.idx = index(key, unit.mask)]
    /\ UNCHANGED driver

NextResize == ResizeCall \/ IndexCall

SpecResize == InitResize /\ [][NextResize]_vars

IsPowerOfTwo(n) == \E k \in 0..30 : n = 2 ^ k

\* C28: after resize(mb), mb >= 1, the entry count is a power of two, the
\* largest that fits in mb MiB, every slot is the index of some key, and
\* every index computed for a key is inside the table.
C28_ResizePowerOfTwo ==
    (unit.kind = "resize" /\ unit.step # "start") =>
        /\ IsPowerOfTwo(unit.n)
        /\ unit.n * SizeofTTEntry <= unit.mb * (2 ^ MiBBits)
        /\ 2 * unit.n * SizeofTTEntry > unit.mb * (2 ^ MiBBits)
        /\ \A slot \in 0..(unit.n - 1) :
              \E key \in ResizeKeys : index(key, unit.mask) = slot
        /\ unit.step = "indexed" => unit.idx \in 0..(unit.n - 1)

\* ---------------------------------------------------------------------------
\* The moves of a position command (uci.cpp:36-61, 75-108)
\* ---------------------------------------------------------------------------

\* position lines with moves: a legal prefix followed by a token that is no
\* move and a legal one after it, a promotion with its letter, without it
\* and with another character in its place, and castling in UCI notation
\* (e1g1) followed by a reply
MoveLines ==
    {[base |-> "startpos", fen |-> 0,
      moves |-> <<<<"c", "1", "d", "2">>, <<"e", "2", "d", "2">>>>],
     [base |-> "startpos", fen |-> 0,
      moves |-> <<<<"c", "1", "d", "2">>, <<"z", "z">>, <<"e", "2", "d", "2">>>>],
     [base |-> "startpos", fen |-> 0,
      moves |-> <<<<"c", "1", "d", "3">>, <<"c", "1", "d", "2">>>>],
     [base |-> "fen", fen |-> PB, moves |-> <<<<"d", "2", "d", "1", "q">>>>],
     [base |-> "fen", fen |-> PB, moves |-> <<<<"d", "2", "d", "1">>>>],
     [base |-> "fen", fen |-> PB, moves |-> <<<<"d", "2", "d", "1", "x">>>>],
     [base |-> "fen", fen |-> CASTLE, moves |-> <<<<"e", "1", "f", "1">>>>],
     [base |-> "fen", fen |-> CASTLE,
      moves |-> <<<<"e", "1", "g", "1">>, <<"e", "8", "e", "7">>>>],
     [base |-> "fen", fen |-> 0, moves |-> <<<<"e", "8", "e", "7">>>>]}

NextMoves ==
    \/ \E line \in MoveLines : CmdPosition(line)
    \/ CmdPositionSet

SpecMoves == Init /\ [][NextMoves]_vars

\* the UCI notation of a move: origin and destination square, for castling
\* the king's origin and the square it lands on (file g or c), for a
\* promotion the lower-case letter of the piece
UciNotation(m) ==
    LET f == MoveFrom(m)
        t == IF MoveType(m) # CASTLING THEN MoveTo(m)
             ELSE RankOf(f) * 8 + (IF MoveTo(m) > f THEN 6 ELSE 2)
        sq == <<FileChars[FileOf(f) + 1], RankChars[RankOf(f) + 1],
                FileChars[FileOf(t) + 1], RankChars[RankOf(t) + 1]>>
    IN IF MoveType(m) = PROMOTION
       THEN Append(sq, <<"n", "b", "r", "q">>[PromotionType(m) - KNIGHT + 1])
       ELSE sq

\* the board after the longest prefix of toks whose tokens are each a legal
\* move of the board reached
RECURSIVE LegalPrefixBoard(_, _)
LegalPrefixBoard(b, toks) ==
    IF toks = <<>> THEN b
    ELSE IF \E k \in 1..Len(LegalMoves(b)) : UciNotation(LegalMoves(b)[k]) = Head(toks)
    THEN LegalPrefixBoard(
             MakeMove(b, LegalMoves(b)[CHOOSE k \in 1..Len(LegalMoves(b)) :
                                          UciNotation(LegalMoves(b)[k]) = Head(toks)]),
             Tail(toks))
    ELSE b

\* C29: a position command with moves leaves the board at its base position
\* plus the longest prefix of the tokens that are legal moves: the first
\* token that is not a legal move of the current board is not applied and
\* no token after it is.
C29_LongestLegalPrefix ==
    [][(upc = "pos_join" /\ upc' = "read" /\ ucmd.pos.base # "none") =>
          board_' = LegalPrefixBoard(
                        IF ucmd.pos.base = "startpos" THEN START
                        ELSE IF ucmd.pos.fen # 0 THEN ucmd.pos.fen ELSE board_,
                        ucmd.pos.moves)]_vars

\* ---------------------------------------------------------------------------
\* setoption name Threads (uci.cpp:220-242)
\* ---------------------------------------------------------------------------

\* a line "setoption name Threads value n" is read: threads_ is set and the
\* pool is grown or cut to it on the UCI thread, whatever the worker is
\* doing (a value that is no number counts as 1). A searcher cut from the
\* pool is destroyed: its slot is a new object when the pool grows again.
CmdSetThreads(n) ==
    /\ upc = "read" /\ ncmds < MaxCmds
    /\ threads_' = Max(1, n)
    /\ sr' = ResizeSearchers(Max(1, n))
    /\ nsearchers' = Max(1, n)
    /\ ncmds' = ncmds + 1
    /\ UNCHANGED <<board_, stopFlag_, searching_, worker, wlim, results, upc, ucmd,
                   out, goCount, outstanding, unit, eval_cache>>

\* the worker's end after threads_ was raised under it: its searcher threads
\* are joined, and the loop "for (i = 1; i < threads_; ++i)" (uci.cpp:187)
\* reads results[i] past the end of the vector it sized at its start. The
\* read is undefined; the model lets it find a default result or a copy of
\* a result that was written.
RacedFinish ==
    /\ worker = "running"
    /\ \E i \in 1..threads_ : sr[i].pc = "idle"
    /\ \E i \in 1..threads_ : sr[i].pc = "done"
    /\ \A i \in 1..threads_ : sr[i].pc \in {"idle", "done"}
    /\ \E g \in {DefaultResult} \cup {results[i] : i \in {j \in 1..threads_ : sr[j].pc = "done"}} :
          out' = out \o BestmoveLines(BestmoveText(
                     Aggregate([i \in Searchers |->
                                   IF sr[i].pc = "done" THEN results[i] ELSE g],
                               threads_).best,
                     LegalMoves(board_)))
    /\ searching_' = FALSE
    /\ worker' = "finished"
    /\ outstanding' = outstanding - 1
    /\ sr' = [i \in Searchers |-> IF sr[i].pc = "done" THEN [sr[i] EXCEPT !.pc = "idle"] ELSE sr[i]]
    /\ UNCHANGED <<board_, stopFlag_, threads_, nsearchers, wlim, results, upc, ucmd,
                   ncmds, goCount, unit, eval_cache>>

\* the driver with go, stop and setoption name Threads lines
NextThreads ==
    \/ \E a \in GoLines : CmdGo(a)
    \/ CmdGoLaunch
    \/ \E n \in 0..MaxThreads : CmdSetThreads(n)
    \/ CmdStop
    \/ WorkerStart
    \/ WorkerFinish
    \/ RacedFinish
    \/ \E i \in Searchers : SearchStep(i)
    \/ \E i \in Searchers : Tick(i)

SpecThreads == Init /\ [][NextThreads]_vars

\* C30: while a search worker is running, the thread count and the searcher
\* pool do not change: no searcher of the pool is destroyed or replaced and
\* none is added.
C30_PoolFixedDuringSearch ==
    [][WorkerRunning =>
          /\ threads_' = threads_
          /\ nsearchers' = nsearchers
          /\ \A i \in 1..nsearchers : sr'[i] # NewSearch \/ sr[i] = NewSearch]_vars

\* ---------------------------------------------------------------------------
\* ucinewgame beside a running search (uci.cpp:218-219, search.cpp:15-20)
\* ---------------------------------------------------------------------------

\* a line "ucinewgame" is read: the loop over searchers_ begins at the
\* first searcher; neither the stop flag is set nor the worker joined
CmdNewGameRead ==
    /\ upc = "read" /\ ncmds < MaxCmds
    /\ upc' = "ng_tt"
    /\ ucmd' = [go |-> GoLine, pos |-> NoLine, s |-> 1]
    /\ ncmds' = ncmds + 1
    /\ UNCHANGED <<board_, stopFlag_, searching_, threads_, nsearchers, sr, worker, wlim,
                   results, out, goCount, outstanding, unit, eval_cache>>

\* the next of the four calls of Search::newGame on searcher ucmd.s, made on
\* the UCI thread between the steps of the searcher threads; after the
\* fourth the loop goes on to the next searcher of the pool or ends
NewGameStep ==
    /\ \/ /\ upc = "ng_tt"
          /\ sr' = [sr EXCEPT ![ucmd.s].tt = NewGeneration(sr[ucmd.s].tt)]
          /\ upc' = "ng_hist"
          /\ UNCHANGED <<ucmd, eval_cache>>
       \/ /\ upc = "ng_hist"
          /\ sr' = [sr EXCEPT ![ucmd.s].hist = HistoryClear]
          /\ upc' = "ng_kill"
          /\ UNCHANGED <<ucmd, eval_cache>>
       \/ /\ upc = "ng_kill"
          /\ sr' = [sr EXCEPT ![ucmd.s].kill = KillersClear]
          /\ upc' = "ng_cache"
          /\ UNCHANGED <<ucmd, eval_cache>>
       \/ /\ upc = "ng_cache"
          /\ eval_cache' = {}
          /\ IF ucmd.s < nsearchers
             THEN upc' = "ng_tt" /\ ucmd' = [ucmd EXCEPT !.s = ucmd.s + 1]
             ELSE upc' = "read" /\ UNCHANGED ucmd
          /\ UNCHANGED sr
    /\ UNCHANGED <<board_, stopFlag_, searching_, threads_, nsearchers, worker, wlim,
                   results, ncmds, out, goCount, outstanding, unit>>

\* the driver with ucinewgame lines whose calls interleave with the search
NextRace == Next \/ CmdNewGameRead \/ NewGameStep

SpecRace == Init /\ [][NextRace]_vars

\* C31: while a search worker is running, a step that changes a searcher's
\* history table, killer table or table generation is a step of that
\* searcher's own search: no command of the UCI thread changes them.
C31_OwnThreadWrites ==
    [][\A i \in 1..nsearchers :
          (/\ WorkerRunning
           /\ \/ sr'[i].hist # sr[i].hist
              \/ sr'[i].kill # sr[i].kill
              \/ sr'[i].tt.gen # sr[i].tt.gen)
          => SearchStep(i)]_vars

\* ---------------------------------------------------------------------------
\* the clock budget against the clock (uci.cpp:141-153)
\* ---------------------------------------------------------------------------

\* C32: the budget parseLimits derives from the clock (a go line with
\* neither infinite, movetime > 0 nor depth > 0, and my_time >= 0) never
\* exceeds the remaining time of the side to move: time_ms <= my_time.
C32_BudgetWithinClock ==
    (/\ unit.kind = "limits" /\ unit.parsed
     /\ ~unit.a.infinite /\ ~(unit.a.movetime > 0) /\ ~(unit.a.depth > 0)
     /\ (IF unit.white THEN unit.a.wtime ELSE unit.a.btime) >= 0)
    => unit.lim.timeMs <= (IF unit.white THEN unit.a.wtime ELSE unit.a.btime)

\* ---------------------------------------------------------------------------
\* the recursion depth of negamax under check extensions (search.cpp:113-138)
\* ---------------------------------------------------------------------------

\* the position line of the checking line: position fen 7k/8/8/Q7/8/8/8/q6K w
PlyLines == {[base |-> "fen", fen |-> CHECKS, moves |-> <<>>]}

\* the driver with that position line
NextPly ==
    \/ \E a \in GoLines : CmdGo(a)
    \/ CmdGoLaunch
    \/ \E line \in PlyLines : CmdPosition(line)
    \/ CmdPositionSet
    \/ CmdStop
    \/ WorkerStart
    \/ WorkerFinish
    \/ \E i \in Searchers : SearchStep(i)
    \/ \E i \in Searchers : Tick(i)

SpecPly == Init /\ [][NextPly]_vars

\* the ply limit of the specification for the iteration cap: 128 for 64
PlyCap == 2 * DepthCap

\* the plies of the negamax calls of searcher i: the call being entered and
\* the frames on its stack
NegamaxPlies(i) ==
    {sr[i].stack[k].ply : k \in {j \in 1..Len(sr[i].stack) : sr[i].stack[j].kind = "N"}}
    \cup (IF sr[i].call.kind = "N" THEN {sr[i].call.ply} ELSE {})

\* C33: for every go (its depth cap is at most DepthCap), the ply of every
\* negamax call along every recursion path is at most PlyCap, so that the
\* killer table is only accessed at a ply from 0 to PlyCap, also when check
\* extensions apply on consecutive plies.
C33_PlyBounded ==
    \A i \in 1..nsearchers : \A p \in NegamaxPlies(i) : p <= PlyCap

====
